---- MODULE Spec2Model ----
(***************************************************************************)
(* Model of the stash containers (src/stash.h): the growable array         *)
(* stash_arr, the open-addressed table stash_umap and the handle registry  *)
(* stash_reg.                                                              *)
(*                                                                         *)
(* Memory model.  A stash_arr is the C record plus the contents of the     *)
(* block `data` points to: field `data` is NULL or HEAP, field `mem` is    *)
(* the sequence of element cells of the block (capacity cells when         *)
(* elem_size > 0, none when elem_size = 0, because the block then has      *)
(* capacity * 0 bytes).  Cells [count, capacity) are scratch: a fresh or   *)
(* grown block holds indeterminate values there, drawn nondeterministically*)
(* (nd.g).  The allocator is an input of every operation that calls it:    *)
(* nd.m says whether a request of a positive size succeeds, nd.z whether a *)
(* request of zero bytes returns a block (TRUE) or a null pointer (FALSE), *)
(* both being allowed by the C library; nd.freed says whether a realloc to *)
(* zero bytes that returned a null pointer has freed the old block, which  *)
(* leaves field `data` dangling (FREED).                                   *)
(***************************************************************************)
EXTENDS Integers, Sequences, FiniteSets, TLC

VARIABLES array, table, reg, client, last, pc

vars == <<array, table, reg, client, last, pc>>

(* ------------------------------ bounds -------------------------------- *)

MaxVal == 1         \* element values are 0..MaxVal
MaxInitCap == 2     \* capacities passed to stash_arr_create: 0..MaxInitCap
MaxCap == 4         \* an operation that would grow a block beyond it is not taken
MaxN == 1           \* stash_arr_insert inserts 0..MaxN elements
MaxBuckets == 2     \* initial capacities passed to stash_umap_create: 0..MaxBuckets
MaxKey == 2         \* keys are 0..MaxKey

Vals == 0..MaxVal

(* --------------------------- program constants ------------------------ *)

STASH_ERROR_KEY_NOT_FOUND == -3
STASH_ERROR_OUT_OF_BOUNDS == -2
STASH_ERROR_OUT_OF_MEMORY == -1
STASH_SUCCESS == 0
STASH_EMPTY == 1
STASH_KEY_EXISTS == 2

ElemSize == 4       \* the elem_size the client creates its arrays with (a 32-bit type)

(* Pointers to elements: NULL, or Ptr(v) pointing at a buffer that holds v. *)
NULL == <<>>

Ptr(v) == <<v>>

Deref(p) == p[1]

(* A non-null pointer to a block returned by the allocator.                *)
HEAP == <<"heap">>

(* The address of a block that has been freed.                             *)
FREED == <<"freed">>

(* ----------------------------- bit helpers ---------------------------- *)

RECURSIVE BitAnd(_, _)
BitAnd(a, b) ==
    IF a = 0 \/ b = 0 THEN 0
    ELSE (IF a % 2 = 1 /\ b % 2 = 1 THEN 1 ELSE 0) + 2 * BitAnd(a \div 2, b \div 2)

RECURSIVE BitOr(_, _)
BitOr(a, b) ==
    IF a = 0 THEN b
    ELSE IF b = 0 THEN a
    ELSE (IF a % 2 = 1 \/ b % 2 = 1 THEN 1 ELSE 0) + 2 * BitOr(a \div 2, b \div 2)

RECURSIVE BitXor(_, _)
BitXor(a, b) ==
    IF a = 0 THEN b
    ELSE IF b = 0 THEN a
    ELSE (IF (a % 2) # (b % 2) THEN 1 ELSE 0) + 2 * BitXor(a \div 2, b \div 2)

RECURSIVE Shr(_, _)
Shr(x, n) == IF n = 0 \/ x = 0 THEN x ELSE Shr(x \div 2, n - 1)

(* x |= x >> n *)
Smear(x, n) == BitOr(x, Shr(x, n))

(* u_stash_next_po2_u64: 0 -> 1, a power of two -> its double, otherwise   *)
(* the bits below the top bit of x - 1 are set and one is added.           *)
u_stash_next_po2_u64(x) ==
    IF x = 0 THEN 1
    ELSE IF BitAnd(x, x - 1) = 0 THEN x * 2
    ELSE Smear(Smear(Smear(Smear(Smear(Smear(x - 1, 1), 2), 4), 8), 16), 32) + 1

(* ------------------------------ stash_arr ----------------------------- *)

(* stash_arr array = { 0 } *)
ZeroArr == [data |-> NULL, mem |-> <<>>, count |-> 0, capacity |-> 0, elem_size |-> 0]

(* The allocator's answers and the indeterminate contents of new cells: a *)
(* request of bytes > 0 fails or returns cells holding one of the contents *)
(* G, a request of zero bytes returns a null pointer or an empty block.    *)
NoAlloc == [m |-> TRUE, z |-> TRUE, g |-> <<>>, freed |-> FALSE]

NDs(bytes, G) ==
    IF bytes = 0
    THEN {[m |-> TRUE, z |-> TRUE, g |-> <<>>, freed |-> FALSE]}
            \cup {[m |-> TRUE, z |-> FALSE, g |-> <<>>, freed |-> b] : b \in BOOLEAN}
    ELSE {[m |-> FALSE, z |-> TRUE, g |-> <<>>, freed |-> FALSE]}
            \cup {[m |-> TRUE, z |-> TRUE, g |-> gg, freed |-> FALSE] : gg \in G}

(* Indeterminate contents of k cells of values.                            *)
Garbage(k) == [1..k -> Vals]

Res(a, r) == [arr |-> a, ret |-> r, oom |-> FALSE, out |-> NULL]

(* Cells of a block of n slots of size esz.                                *)
Cells(n, esz) == IF esz = 0 THEN 0 ELSE n

(* STASH_REALLOC(old block, n * elem_size): the contents are kept up to    *)
(* the smaller size, new cells are indeterminate.                          *)
ReallocMem(mem, n, g) ==
    [i \in 1..n |-> IF i <= Len(mem) THEN mem[i] ELSE g[i - Len(mem)]]

AllocOk(bytes, nd) == IF bytes = 0 THEN nd.z ELSE nd.m

stash_arr_create(capacity, elem_size, nd) ==
    IF capacity = 0 \/ elem_size = 0 THEN ZeroArr
    ELSE IF ~AllocOk(capacity * elem_size, nd) THEN ZeroArr
    ELSE [data |-> HEAP, mem |-> ReallocMem(<<>>, capacity, nd.g), count |-> 0,
          capacity |-> capacity, elem_size |-> elem_size]

(* stash_arr_is_valid without the test of elem_size.                      *)
stash_arr_is_valid_NoSize(a) == a.data # NULL /\ a.capacity > 0

stash_arr_is_valid(a) == a.data # NULL /\ a.capacity > 0 /\ a.elem_size > 0

stash_arr_is_empty(a) == a.count = 0

(* The array after STASH_REALLOC(data, bytes) returned a null pointer: the *)
(* record is not written, but a request of zero bytes may have freed the   *)
(* block data points to.                                                   *)
ReallocFailed(a, bytes, nd) ==
    IF bytes = 0 /\ a.data # NULL /\ nd.freed THEN [a EXCEPT !.data = FREED] ELSE a

stash_arr_reserve(a, newCapacity, nd) ==
    IF a.capacity >= newCapacity THEN Res(a, STASH_SUCCESS)
    ELSE IF ~AllocOk(newCapacity * a.elem_size, nd)
         THEN [arr |-> ReallocFailed(a, newCapacity * a.elem_size, nd),
               ret |-> STASH_ERROR_OUT_OF_MEMORY, oom |-> TRUE, out |-> NULL]
    ELSE Res([a EXCEPT !.data = HEAP,
                       !.mem = ReallocMem(a.mem, Cells(newCapacity, a.elem_size), nd.g),
                       !.capacity = newCapacity], STASH_SUCCESS)

stash_arr_clear(a) == [a EXCEPT !.count = 0]

(* STASH_FREE(data) when data is not null, then every field is zeroed.     *)
stash_arr_destroy(a) == ZeroArr

(* malloc(count * elem_size) and memcpy of the live slots; the zero record *)
(* when there is nothing to copy or the allocation fails.                  *)
stash_arr_copy(src, nd) ==
    IF src.count * src.elem_size = 0 THEN ZeroArr
    ELSE IF ~nd.m THEN ZeroArr
    ELSE [data |-> HEAP, mem |-> SubSeq(src.mem, 1, src.count), count |-> src.count,
          capacity |-> src.count, elem_size |-> src.elem_size]

(* stash_arr_shrink_to_fit lowering the capacity before it has seen the    *)
(* allocation fail.                                                        *)
stash_arr_shrink_to_fit_Early(a, nd) ==
    IF a.count = a.capacity THEN Res(a, 1)
    ELSE IF a.count = 0 THEN Res(a, STASH_EMPTY)
    ELSE IF ~AllocOk(a.count * a.elem_size, nd)
         THEN [arr |-> [ReallocFailed(a, a.count * a.elem_size, nd)
                          EXCEPT !.capacity = a.count],
               ret |-> STASH_ERROR_OUT_OF_MEMORY, oom |-> TRUE, out |-> NULL]
    ELSE Res([a EXCEPT !.data = HEAP,
                       !.mem = ReallocMem(a.mem, Cells(a.count, a.elem_size), nd.g),
                       !.capacity = a.count], STASH_SUCCESS)

stash_arr_shrink_to_fit(a, nd) ==
    IF a.count = a.capacity THEN Res(a, 1)
    ELSE IF a.count = 0 THEN Res(a, STASH_EMPTY)
    ELSE IF ~AllocOk(a.count * a.elem_size, nd)
         THEN [arr |-> ReallocFailed(a, a.count * a.elem_size, nd),
               ret |-> STASH_ERROR_OUT_OF_MEMORY, oom |-> TRUE, out |-> NULL]
    ELSE Res([a EXCEPT !.data = HEAP,
                       !.mem = ReallocMem(a.mem, Cells(a.count, a.elem_size), nd.g),
                       !.capacity = a.count], STASH_SUCCESS)

(* Slots [from, to) set to v (the memcpy loop, or the memset with v = 0).  *)
FillSlots(a, from, to, v) ==
    IF a.elem_size = 0 THEN a
    ELSE [a EXCEPT !.mem = [k \in 1..Len(a.mem) |->
                              IF k - 1 >= from /\ k - 1 < to THEN v ELSE a.mem[k]]]

(* memcpy(data + i * elem_size, &v, elem_size): nothing is written when    *)
(* elem_size is 0.                                                         *)
Store(a, i, v) == IF a.elem_size = 0 THEN a ELSE [a EXCEPT !.mem[i + 1] = v]

(* memcpy(element, data + i * elem_size, elem_size) into a buffer that     *)
(* held `buf`: nothing is copied when elem_size is 0.                      *)
Load(a, i, buf) ==
    IF buf = NULL THEN NULL ELSE IF a.elem_size = 0 THEN buf ELSE Ptr(a.mem[i + 1])

(* memmove(data + dst * elem_size, data + src * elem_size, n * elem_size)  *)
MemMove(a, dst, src, n) ==
    IF a.elem_size = 0 THEN a
    ELSE [a EXCEPT !.mem = [k \in 1..Len(a.mem) |->
                              IF k - 1 >= dst /\ k - 1 < dst + n
                              THEN a.mem[src + (k - 1 - dst) + 1] ELSE a.mem[k]]]

(* memcpy(data + index * elem_size, elements, n * elem_size)               *)
MemCpyIn(a, index, elements, n) ==
    IF a.elem_size = 0 THEN a
    ELSE [a EXCEPT !.mem = [k \in 1..Len(a.mem) |->
                              IF k - 1 >= index /\ k - 1 < index + n
                              THEN elements[k - index] ELSE a.mem[k]]]

(* memcpy of *data into every slot of [0, capacity), then count =          *)
(* capacity; with elem_size = 0 the loop ends before its first pass.       *)
stash_arr_fill(a, data) ==
    [FillSlots(a, 0, a.capacity, Deref(data)) EXCEPT !.count = a.capacity]

(* The value memcpy/memset puts in a slot for `element` (zero when absent) *)
ElemOrZero(element) == IF element = NULL THEN 0 ELSE Deref(element)

(* stash_arr_resize leaving the new slots as the allocator gave them when  *)
(* no fill element is passed.                                              *)
stash_arr_resize_NoZero(a, size, element, nd) ==
    IF size <= a.count THEN Res([a EXCEPT !.count = size], STASH_SUCCESS)
    ELSE LET r == IF size >= a.capacity THEN stash_arr_reserve(a, size, nd)
                  ELSE Res(a, STASH_SUCCESS)
         IN  IF r.ret < 0 THEN r
             ELSE IF element = NULL THEN Res([r.arr EXCEPT !.count = size], STASH_SUCCESS)
             ELSE Res([FillSlots(r.arr, a.count, size, ElemOrZero(element))
                         EXCEPT !.count = size], STASH_SUCCESS)

stash_arr_resize(a, size, element, nd) ==
    IF size <= a.count THEN Res([a EXCEPT !.count = size], STASH_SUCCESS)
    ELSE LET r == IF size >= a.capacity THEN stash_arr_reserve(a, size, nd)
                  ELSE Res(a, STASH_SUCCESS)
         IN  IF r.ret < 0 THEN r
             ELSE Res([FillSlots(r.arr, a.count, size, ElemOrZero(element))
                         EXCEPT !.count = size], STASH_SUCCESS)

stash_arr_insert(a, index, elements, n, nd) ==
    IF index > a.count THEN Res(a, STASH_ERROR_OUT_OF_BOUNDS)
    ELSE LET sum == a.count + n
             grow == sum > a.capacity
             newSize == IF grow THEN u_stash_next_po2_u64(sum) ELSE sum
             r == IF grow THEN stash_arr_reserve(a, newSize, nd) ELSE Res(a, STASH_SUCCESS)
         IN  IF r.ret < 0 THEN r
             ELSE LET moved == MemMove(r.arr, index + n, index, a.count - index)
                      copied == MemCpyIn(moved, index, elements, n)
                  IN  Res([copied EXCEPT !.count = newSize], STASH_SUCCESS)

stash_arr_at(a, index) == IF index >= a.count THEN NULL ELSE Ptr(index)

(* The growth step reserving the required count itself.                    *)
GrowForPush_Exact(a, nd) ==
    IF a.count >= a.capacity
    THEN stash_arr_reserve(a, a.count + 1, nd)
    ELSE Res(a, STASH_SUCCESS)

(* The growth step shared by the three push functions.                    *)
GrowForPush(a, nd) ==
    IF a.count >= a.capacity
    THEN stash_arr_reserve(a, u_stash_next_po2_u64(a.count + 1), nd)
    ELSE Res(a, STASH_SUCCESS)

stash_arr_push_back(a, element, nd) ==
    LET r == GrowForPush(a, nd)
    IN  IF r.ret < 0 THEN r
        ELSE Res([Store(r.arr, a.count, ElemOrZero(element)) EXCEPT !.count = a.count + 1],
                 STASH_SUCCESS)

stash_arr_push_front(a, element, nd) ==
    LET r == GrowForPush(a, nd)
    IN  IF r.ret < 0 THEN r
        ELSE LET moved == MemMove(r.arr, 1, 0, a.count)
             IN  Res([Store(moved, 0, ElemOrZero(element)) EXCEPT !.count = a.count + 1],
                     STASH_SUCCESS)

(* destination and source are both data + index * elem_size in the code.  *)
PushAtDestination(index) == index

(* stash_arr_push_at accepting index = count, as stash_arr_insert does.    *)
stash_arr_push_at_Tail(a, index, element, nd) ==
    IF index > a.count THEN Res(a, STASH_ERROR_OUT_OF_BOUNDS)
    ELSE LET r == GrowForPush(a, nd)
         IN  IF r.ret < 0 THEN r
             ELSE LET moved == MemMove(r.arr, PushAtDestination(index), index, a.count - index)
                  IN  Res([Store(moved, index, ElemOrZero(element))
                             EXCEPT !.count = a.count + 1], STASH_SUCCESS)

stash_arr_push_at(a, index, element, nd) ==
    IF index >= a.count THEN Res(a, STASH_ERROR_OUT_OF_BOUNDS)
    ELSE LET r == GrowForPush(a, nd)
         IN  IF r.ret < 0 THEN r
             ELSE LET moved == MemMove(r.arr, PushAtDestination(index), index, a.count - index)
                  IN  Res([Store(moved, index, ElemOrZero(element))
                             EXCEPT !.count = a.count + 1], STASH_SUCCESS)

stash_arr_pop_back(a, element) ==
    IF a.count = 0 THEN Res(a, STASH_EMPTY)
    ELSE [arr |-> [a EXCEPT !.count = a.count - 1], ret |-> STASH_SUCCESS, oom |-> FALSE,
          out |-> Load(a, a.count - 1, element)]

(* Mutant of stash_arr_pop_front: the remaining items are not moved left. *)
stash_arr_pop_front_NoShift(a, element) ==
    IF a.count = 0 THEN Res(a, STASH_EMPTY)
    ELSE [arr |-> [a EXCEPT !.count = a.count - 1],
          ret |-> STASH_SUCCESS, oom |-> FALSE, out |-> Load(a, 0, element)]

stash_arr_pop_front(a, element) ==
    IF a.count = 0 THEN Res(a, STASH_EMPTY)
    ELSE [arr |-> [MemMove(a, 0, 1, a.count - 1) EXCEPT !.count = a.count - 1],
          ret |-> STASH_SUCCESS, oom |-> FALSE, out |-> Load(a, 0, element)]

stash_arr_pop_at(a, index, element) ==
    IF index >= a.count THEN Res(a, STASH_ERROR_OUT_OF_BOUNDS)
    ELSE [arr |-> [MemMove(a, index, index + 1, a.count - index - 1)
                     EXCEPT !.count = a.count - 1],
          ret |-> STASH_SUCCESS, oom |-> FALSE, out |-> Load(a, index, element)]

(* The live slots [0, count) of an array with a positive element size.    *)
Live(a) == [i \in 1..a.count |-> a.mem[i]]

(* Equal counts and element sizes, and memcmp of the live slots.           *)
stash_arr_compare(a, b) ==
    /\ a.count = b.count
    /\ a.elem_size = b.elem_size
    /\ \A k \in 1..Cells(a.count, a.elem_size) : a.mem[k] = b.mem[k]

(* ------------------------------- stash_it ----------------------------- *)
(* The fields of a cursor are addresses.  An address is NULL, a place in a *)
(* block, <<"data", off>> for byte off of the block of the array the       *)
(* cursor walks and <<"val", i>> for the value buffer of bucket i, or an   *)
(* absolute address <<"abs", n>>: the integer n cast to a pointer, or the  *)
(* null pointer moved by n bytes (n < 0 is the address 2^64 + n).          *)

(* stash_it it = { 0 } *)
ZeroIt == [curr |-> NULL, prev |-> NULL, next |-> NULL]

(* the integer n cast to a pointer *)
Abs(n) == IF n = 0 THEN NULL ELSE <<"abs", n>>

(* a.data + off, in bytes *)
DataPtr(a, off) == IF a.data = NULL THEN Abs(off) ELSE <<"data", off>>

(* p + k, in bytes *)
PtrAdd(p, k) ==
    IF p = NULL THEN Abs(k)
    ELSE IF p[1] = "abs" THEN Abs(p[2] + k)
    ELSE <<p[1], p[2] + k>>

(* The bytes of address p as <<region, number>>.                           *)
PtrBytes(p) == IF p = NULL THEN <<"abs", 0>> ELSE p

(* p and q are computed from the same base, so that their order is the     *)
(* order of their offsets; the order of an address computed from the null  *)
(* pointer and an address in a block depends on where the allocator put    *)
(* the block.                                                              *)
Comparable(p, q) == PtrBytes(p)[1] = PtrBytes(q)[1]

(* p < q for addresses; cmp is the answer when they are not comparable.    *)
PtrLess(p, q, cmp) ==
    LET m == PtrBytes(p)[2]
        n == PtrBytes(q)[2]
    IN  IF ~Comparable(p, q) THEN cmp
        ELSE IF PtrBytes(p)[1] = "abs" /\ (m < 0) # (n < 0) THEN n < 0
        ELSE m < n

stash_arr_begin(a) ==
    IF a.count = 0 THEN ZeroIt
    ELSE [curr |-> DataPtr(a, 0), prev |-> NULL,
          next |-> IF a.count > 1 THEN PtrAdd(DataPtr(a, 0), a.elem_size) ELSE NULL]

(* The address stash_arr_previous compares with array->data.               *)
ArrPrevProbe(a, it) == PtrAdd(it.prev, 0 - a.elem_size)

stash_arr_previous(a, it, cmp) ==
    LET s == IF it.prev = NULL
             THEN [it EXCEPT !.next = IF a.count > 0 THEN DataPtr(a, 0) ELSE NULL,
                             !.curr = NULL]
             ELSE it
        p == ArrPrevProbe(a, s)
    IN  [curr |-> s.prev, next |-> s.curr,
         prev |-> IF PtrLess(p, DataPtr(a, 0), cmp) THEN NULL ELSE p]

(* The address stash_arr_next compares with the end of the live slots.     *)
ArrNextProbe(a, it) == PtrAdd(it.next, a.elem_size)

stash_arr_next(a, it, cmp) ==
    LET s == IF it.next = NULL THEN [it EXCEPT !.prev = it.curr, !.curr = NULL] ELSE it
        n == ArrNextProbe(a, s)
    IN  [curr |-> s.next, prev |-> s.curr,
         next |-> IF ~PtrLess(n, DataPtr(a, a.count * a.elem_size), cmp) THEN NULL ELSE n]

(* stash_arr_end without the early return for a single element.            *)
stash_arr_end_NoSingle(a) ==
    IF a.count = 0 THEN ZeroIt
    ELSE LET curr == DataPtr(a, (a.count - 1) * a.elem_size)
         IN  [curr |-> curr, next |-> NULL, prev |-> PtrAdd(curr, 0 - a.elem_size)]

stash_arr_end(a) ==
    IF a.count = 0 THEN ZeroIt
    ELSE LET curr == DataPtr(a, (a.count - 1) * a.elem_size)
         IN  [curr |-> curr, next |-> NULL,
              prev |-> IF a.count = 1 THEN NULL ELSE PtrAdd(curr, 0 - a.elem_size)]

(* ------------------------------ stash_umap ---------------------------- *)

EntrySize == 24     \* sizeof(stash_umap_entry): uint32_t, void*, bool with padding
ValueSize == 8      \* the value_size the client creates its table with (a 64-bit type)
DefaultCapacity == 16

Keys == 0..MaxKey

(* 32-bit unsigned arithmetic on <<high 16 bits, low 16 bits>>, as the     *)
(* products do not fit the checker's integers.                             *)
U32(k) == <<k \div 65536, k % 65536>>

(* The 32-bit product of two 16-bit numbers, by 8-bit limbs.              *)
Mul16(a, b) ==
    LET a1 == a \div 256
        a0 == a % 256
        b1 == b \div 256
        b0 == b % 256
        mid == (a1 * b0) + (a0 * b1)
        t == (a0 * b0) + ((mid % 256) * 256)
    IN  <<((a1 * b1) + (mid \div 256) + (t \div 65536)) % 65536, t % 65536>>

(* x * c modulo 2^32 *)
Mul32(x, c) ==
    LET p == Mul16(x[2], c[2])
    IN  <<(p[1] + Mul16(x[1], c[2])[2] + Mul16(x[2], c[1])[2]) % 65536, p[2]>>

(* x ^ (x >> 16) *)
XorShr16(x) == <<x[1], BitXor(x[2], x[1])>>

(* x ^ (x >> 13) *)
XorShr13(x) ==
    <<BitXor(x[1], x[1] \div 8192), BitXor(x[2], ((x[1] % 8192) * 8) + (x[2] \div 8192))>>

(* The finalizer of u_stash_umap_hash_u32 before the reduction.            *)
Mix32(key) ==
    LET x1 == XorShr16(U32(key))
        x2 == Mul32(x1, <<34283, 51819>>)     \* 0x85ebca6b
        x3 == XorShr13(x2)
        x4 == Mul32(x3, <<49842, 44597>>)     \* 0xc2b2ae35
    IN  XorShr16(x4)

MixTable == [k \in Keys |-> Mix32(k)]

u_stash_umap_hash_u32(key, capacity) ==
    LET h == MixTable[key]
    IN  (((h[1] % capacity) * (65536 % capacity)) + (h[2] % capacity)) % capacity

(* stash_umap_entry default_entry = { 0 } *)
default_entry == [key |-> 0, value |-> NULL, occupied |-> FALSE]

(* Indeterminate contents of k bucket cells.  No function of the table     *)
(* reads a bucket at or beyond buckets.count, so one content per block is  *)
(* drawn: all zero, or an entry that looks occupied.                       *)
EntryGarbage(k) ==
    {[i \in 1..k |-> e] : e \in {default_entry,
                                 [key |-> MaxKey, value |-> Ptr(0), occupied |-> TRUE]}}

stash_umap_is_valid(t) == stash_arr_is_valid(t.buckets)

(* stash_umap_create resizing the buckets to the capacity it allocated.     *)
stash_umap_create_Full(initialCapacity, value_size, nd) ==
    LET actual_capacity == IF initialCapacity > 0 THEN initialCapacity ELSE DefaultCapacity
        b == stash_arr_create(actual_capacity, EntrySize, nd)
    IN  [buckets |-> IF stash_arr_is_valid(b)
                     THEN stash_arr_resize(b, actual_capacity, Ptr(default_entry), nd).arr
                     ELSE b,
         count |-> 0, value_size |-> value_size]

stash_umap_create(initialCapacity, value_size, nd) ==
    LET actual_capacity == IF initialCapacity > 0 THEN initialCapacity ELSE DefaultCapacity
        b == stash_arr_create(actual_capacity, EntrySize, nd)
    IN  [buckets |-> IF stash_arr_is_valid(b)
                     THEN stash_arr_resize(b, initialCapacity, Ptr(default_entry), nd).arr
                     ELSE b,
         count |-> 0, value_size |-> value_size]

(* The entry stash_arr_at(&table->buckets, index) points to.               *)
EntryAt(t, index) == t.buckets.mem[index + 1]

RECURSIVE FindEntryLoop(_, _, _, _)
FindEntryLoop(t, key, index, original_index) ==
    LET at == stash_arr_at(t.buckets, index)
        next == (index + 1) % t.buckets.count
    IN  IF at # NULL /\ EntryAt(t, index).occupied /\ EntryAt(t, index).key = key THEN index
        ELSE IF at # NULL /\ ~EntryAt(t, index).occupied THEN -1
        ELSE IF next = original_index THEN -1
        ELSE FindEntryLoop(t, key, next, original_index)

u_stash_find_entry_index(t, key) ==
    IF ~stash_umap_is_valid(t) \/ t.buckets.count = 0 THEN -1
    ELSE LET index == u_stash_umap_hash_u32(key, t.buckets.count)
         IN  FindEntryLoop(t, key, index, index)

RECURSIVE FindFreeLoop(_, _, _, _)
FindFreeLoop(t, key, index, original_index) ==
    LET at == stash_arr_at(t.buckets, index)
        next == (index + 1) % t.buckets.count
    IN  IF at # NULL /\ ~EntryAt(t, index).occupied THEN index
        ELSE IF at # NULL /\ EntryAt(t, index).key = key THEN -2
        ELSE IF next = original_index THEN -1
        ELSE FindFreeLoop(t, key, next, original_index)

(* u_stash_find_free_slot with the scan started at bucket 0 instead of the *)
(* key's home bucket.                                                      *)
u_stash_find_free_slot_FromZero(t, key) ==
    IF ~stash_umap_is_valid(t) \/ t.buckets.count = 0 THEN -1
    ELSE FindFreeLoop(t, key, 0, 0)

u_stash_find_free_slot(t, key) ==
    IF ~stash_umap_is_valid(t) \/ t.buckets.count = 0 THEN -1
    ELSE LET index == u_stash_umap_hash_u32(key, t.buckets.count)
         IN  FindFreeLoop(t, key, index, index)

TRes(t, r, o) == [tab |-> t, ret |-> r, out |-> o, oom |-> FALSE]

(* nd: the allocator's answer to the reserve of the buckets; vm: whether   *)
(* STASH_MALLOC(value_size) succeeds.                                      *)
(* stash_umap_insert reading the two failure codes of the slot search the  *)
(* wrong way round.                                                        *)
stash_umap_insert_Swapped(t, key, value, nd, vm) ==
    IF ~stash_umap_is_valid(t) \/ value = NULL THEN TRes(t, STASH_ERROR_OUT_OF_MEMORY, NULL)
    ELSE LET b == IF t.buckets.count + 1 >= t.buckets.capacity
                  THEN stash_arr_reserve(t.buckets,
                                         u_stash_next_po2_u64(t.buckets.count + 1), nd).arr
                  ELSE t.buckets
             t1 == [t EXCEPT !.buckets = b]
             slot_index == u_stash_find_free_slot(t1, key)
         IN  IF slot_index = -1 THEN TRes(t1, STASH_KEY_EXISTS, NULL)
             ELSE IF slot_index = -2 THEN TRes(t1, STASH_ERROR_OUT_OF_MEMORY, NULL)
             ELSE IF ~vm THEN [TRes(t1, STASH_ERROR_OUT_OF_MEMORY, NULL) EXCEPT !.oom = TRUE]
             ELSE TRes([t1 EXCEPT !.buckets.mem[slot_index + 1] =
                                     [key |-> key, value |-> Ptr(Deref(value)),
                                      occupied |-> TRUE],
                                  !.count = t.count + 1],
                       STASH_SUCCESS, NULL)

(* stash_umap_insert replacing the value of a key that is already stored.  *)
stash_umap_insert_Overwrite(t, key, value, nd, vm) ==
    IF ~stash_umap_is_valid(t) \/ value = NULL THEN TRes(t, STASH_ERROR_OUT_OF_MEMORY, NULL)
    ELSE LET b == IF t.buckets.count + 1 >= t.buckets.capacity
                  THEN stash_arr_reserve(t.buckets,
                                         u_stash_next_po2_u64(t.buckets.count + 1), nd).arr
                  ELSE t.buckets
             t1 == [t EXCEPT !.buckets = b]
             slot_index == u_stash_find_free_slot(t1, key)
         IN  IF slot_index = -2
             THEN TRes([t1 EXCEPT !.buckets.mem[u_stash_find_entry_index(t1, key) + 1].value =
                                     Ptr(Deref(value))], STASH_KEY_EXISTS, NULL)
             ELSE IF slot_index = -1 THEN TRes(t1, STASH_ERROR_OUT_OF_MEMORY, NULL)
             ELSE IF ~vm THEN [TRes(t1, STASH_ERROR_OUT_OF_MEMORY, NULL) EXCEPT !.oom = TRUE]
             ELSE TRes([t1 EXCEPT !.buckets.mem[slot_index + 1] =
                                     [key |-> key, value |-> Ptr(Deref(value)),
                                      occupied |-> TRUE],
                                  !.count = t.count + 1],
                       STASH_SUCCESS, NULL)

stash_umap_insert(t, key, value, nd, vm) ==
    IF ~stash_umap_is_valid(t) \/ value = NULL THEN TRes(t, STASH_ERROR_OUT_OF_MEMORY, NULL)
    ELSE LET b == IF t.buckets.count + 1 >= t.buckets.capacity
                  THEN stash_arr_reserve(t.buckets,
                                         u_stash_next_po2_u64(t.buckets.count + 1), nd).arr
                  ELSE t.buckets
             t1 == [t EXCEPT !.buckets = b]
             slot_index == u_stash_find_free_slot(t1, key)
         IN  IF slot_index = -2 THEN TRes(t1, STASH_KEY_EXISTS, NULL)
             ELSE IF slot_index = -1 THEN TRes(t1, STASH_ERROR_OUT_OF_MEMORY, NULL)
             ELSE IF ~vm THEN [TRes(t1, STASH_ERROR_OUT_OF_MEMORY, NULL) EXCEPT !.oom = TRUE]
             ELSE TRes([t1 EXCEPT !.buckets.mem[slot_index + 1] =
                                     [key |-> key, value |-> Ptr(Deref(value)),
                                      occupied |-> TRUE],
                                  !.count = t.count + 1],
                       STASH_SUCCESS, NULL)

(* stash_umap_reserve resizing the bucket array to the new capacity.       *)
stash_umap_reserve_Resize(t, newCapacity, nd) ==
    IF ~stash_umap_is_valid(t) \/ newCapacity < t.count
    THEN TRes(t, STASH_ERROR_OUT_OF_MEMORY, NULL)
    ELSE TRes([t EXCEPT !.buckets =
                  stash_arr_resize(t.buckets, newCapacity, Ptr(default_entry), nd).arr],
              STASH_SUCCESS, NULL)

(* The result of stash_arr_reserve is not looked at.                       *)
stash_umap_reserve(t, newCapacity, nd) ==
    IF ~stash_umap_is_valid(t) \/ newCapacity < t.count
    THEN TRes(t, STASH_ERROR_OUT_OF_MEMORY, NULL)
    ELSE TRes([t EXCEPT !.buckets = stash_arr_reserve(t.buckets, newCapacity, nd).arr],
              STASH_SUCCESS, NULL)

(* stash_umap_remove leaving the freed value pointer in the entry.         *)
stash_umap_remove_KeepValue(t, key, element) ==
    IF ~stash_umap_is_valid(t) THEN TRes(t, STASH_ERROR_KEY_NOT_FOUND, NULL)
    ELSE LET index == u_stash_find_entry_index(t, key)
         IN  IF index < 0 THEN TRes(t, STASH_ERROR_KEY_NOT_FOUND, NULL)
             ELSE TRes([t EXCEPT !.buckets.mem[index + 1].occupied = FALSE,
                                 !.count = t.count - 1],
                       STASH_SUCCESS,
                       IF element # NULL THEN EntryAt(t, index).value ELSE NULL)

stash_umap_remove(t, key, element) ==
    IF ~stash_umap_is_valid(t) THEN TRes(t, STASH_ERROR_KEY_NOT_FOUND, NULL)
    ELSE LET index == u_stash_find_entry_index(t, key)
         IN  IF index < 0 THEN TRes(t, STASH_ERROR_KEY_NOT_FOUND, NULL)
             ELSE TRes([t EXCEPT !.buckets.mem[index + 1].occupied = FALSE,
                                 !.buckets.mem[index + 1].value = NULL,
                                 !.count = t.count - 1],
                       STASH_SUCCESS,
                       IF element # NULL THEN EntryAt(t, index).value ELSE NULL)

stash_umap_get(t, key, element) ==
    IF ~stash_umap_is_valid(t) \/ element = NULL THEN TRes(t, STASH_ERROR_KEY_NOT_FOUND, NULL)
    ELSE LET index == u_stash_find_entry_index(t, key)
         IN  IF index < 0 THEN TRes(t, STASH_ERROR_KEY_NOT_FOUND, NULL)
             ELSE TRes(t, STASH_SUCCESS, EntryAt(t, index).value)

stash_umap_contains(t, key) ==
    IF ~stash_umap_is_valid(t) THEN FALSE ELSE u_stash_find_entry_index(t, key) >= 0

stash_umap_clear(t) ==
    IF ~stash_umap_is_valid(t) THEN t
    ELSE [t EXCEPT !.buckets.mem = [k \in 1..Len(t.buckets.mem) |->
                                      IF k <= t.buckets.count /\ t.buckets.mem[k].occupied
                                      THEN [t.buckets.mem[k] EXCEPT !.value = NULL,
                                                                    !.occupied = FALSE]
                                      ELSE t.buckets.mem[k]],
                   !.count = 0]

stash_umap_count(t) == IF stash_umap_is_valid(t) THEN t.count ELSE 0

(* --------------------------- array operations ------------------------- *)

(* The allocator inputs of a call that reserves newCapacity slots for `a`: *)
(* none when the capacity suffices, as stash_arr_reserve then returns      *)
(* before STASH_REALLOC.                                                   *)
ReserveNDs(a, newCapacity) ==
    IF a.capacity >= newCapacity THEN {NoAlloc}
    ELSE NDs(newCapacity * a.elem_size,
             Garbage(Cells(newCapacity, a.elem_size) - Len(a.mem)))

PushCap(a) == IF a.count >= a.capacity THEN u_stash_next_po2_u64(a.count + 1) ELSE a.capacity

InsertCap(a, n) ==
    IF a.count + n > a.capacity THEN u_stash_next_po2_u64(a.count + n) ELSE a.capacity

Elems == {Ptr(v) : v \in Vals} \cup {NULL}

NoLog ==
    [op |-> "none", pre |-> ZeroArr, index |-> 0, elem |-> NULL, elems |-> <<>>,
     ret |-> STASH_SUCCESS, oom |-> FALSE, out |-> NULL]

ArrLog(name, index, elem, elems, r) ==
    [op |-> name, pre |-> array, index |-> index, elem |-> elem, elems |-> elems,
     ret |-> r.ret, oom |-> r.oom, out |-> r.out]

(* A call of the client: it is made when the client is ready, and leaves   *)
(* the client holding what the call returned (pc = "returned", last).      *)
ArrStep(name, index, elem, elems, r) ==
    /\ r.arr.capacity <= MaxCap
    /\ array' = r.arr
    /\ last' = ArrLog(name, index, elem, elems, r)
    /\ pc' = "returned"
    /\ UNCHANGED <<table, reg, client>>

(* The client drops the results of the call and is ready for the next one. *)
Resume ==
    /\ pc = "returned"
    /\ pc' = "ready"
    /\ last' = NoLog
    /\ UNCHANGED <<array, table, reg, client>>

ArrPushBack ==
    /\ pc = "ready"
    /\ \E e \in Elems : \E nd \in ReserveNDs(array, PushCap(array)) :
        ArrStep("arr_push_back", 0, e, <<>>, stash_arr_push_back(array, e, nd))

ArrPushFront ==
    /\ pc = "ready"
    /\ \E e \in Elems : \E nd \in ReserveNDs(array, PushCap(array)) :
        ArrStep("arr_push_front", 0, e, <<>>, stash_arr_push_front(array, e, nd))

ArrPushAt ==
    /\ pc = "ready"
    /\ \E i \in 0..MaxCap : \E e \in Elems : \E nd \in ReserveNDs(array, PushCap(array)) :
        ArrStep("arr_push_at", i, e, <<>>, stash_arr_push_at(array, i, e, nd))

ArrInsert ==
    /\ pc = "ready"
    /\ \E i \in 0..MaxCap : \E n \in 0..MaxN : \E es \in [1..n -> Vals] :
        \E nd \in ReserveNDs(array, InsertCap(array, n)) :
            ArrStep("arr_insert", i, NULL, es, stash_arr_insert(array, i, es, n, nd))

(* `b` tells whether the caller passes a buffer for the removed element.   *)
ArrPopBack ==
    /\ pc = "ready"
    /\ \E b \in {Ptr(0), NULL} : ArrStep("arr_pop_back", 0, b, <<>>, stash_arr_pop_back(array, b))

ArrPopFront ==
    /\ pc = "ready"
    /\ \E b \in {Ptr(0), NULL} : ArrStep("arr_pop_front", 0, b, <<>>, stash_arr_pop_front(array, b))

ArrPopAt ==
    /\ pc = "ready"
    /\ \E i \in 0..MaxCap : \E b \in {Ptr(0), NULL} :
        ArrStep("arr_pop_at", i, b, <<>>, stash_arr_pop_at(array, i, b))

ArrClear ==
    /\ pc = "ready"
    /\ ArrStep("arr_clear", 0, NULL, <<>>, Res(stash_arr_clear(array), STASH_SUCCESS))

InitArr ==
    /\ pc = "ready"
    /\ \E c \in 0..MaxInitCap : \E nd \in NDs(c * ElemSize, Garbage(c)) : array = stash_arr_create(c, ElemSize, nd)
    /\ table = 0
    /\ reg = 0
    /\ client = 0
    /\ last = NoLog

NextArr ==
    \/ ArrPushBack
    \/ ArrPushFront
    \/ ArrPushAt
    \/ ArrInsert
    \/ ArrPopBack
    \/ ArrPopFront
    \/ ArrPopAt
    \/ ArrClear
    \/ Resume

SpecArr == InitArr /\ [][NextArr]_vars

(* ------------------------- sequence operations ------------------------ *)

InsertSeq(s, i, es) == SubSeq(s, 1, i) \o es \o SubSeq(s, i + 1, Len(s))

RemoveAt(s, i) == SubSeq(s, 1, i) \o SubSeq(s, i + 2, Len(s))

(* ------------------------------ C3, C4, C9 ---------------------------- *)

(* C3: on a valid array, insert(i, es, n) with i <= count returns OK (the  *)
(* allocator not failing) and afterwards count has grown by exactly n, slots [0, i) are  *)
(* unchanged, slots [i, i+n) hold es and the former slots [i, old count)   *)
(* follow in order: the live slots are the old ones with es spliced in at  *)
(* i, whether or not the call had to grow the capacity.                    *)
C3_InsertSplices ==
    (/\ last.op = "arr_insert" /\ stash_arr_is_valid(last.pre)
     /\ last.index <= last.pre.count /\ ~last.oom)
        => /\ last.ret = STASH_SUCCESS
           /\ array.count = last.pre.count + Len(last.elems)
           /\ Live(array) = InsertSeq(Live(last.pre), last.index, last.elems)

(* C4: on a valid array, push_at(i, e) with i < count returns OK (the      *)
(* allocator not failing) and afterwards count has grown by one, slot i holds e, slots [0, i) are *)
(* unchanged and every former slot j >= i is found at j + 1.               *)
C4_PushAtShifts ==
    (/\ last.op = "arr_push_at" /\ stash_arr_is_valid(last.pre)
     /\ last.index < last.pre.count /\ ~last.oom)
        => /\ last.ret = STASH_SUCCESS
           /\ array.count = last.pre.count + 1
           /\ Live(array) = InsertSeq(Live(last.pre), last.index, <<ElemOrZero(last.elem)>>)

(* C9: on a valid array, push_back appends, push_front prepends, pop_back  *)
(* removes the last, pop_front the first and pop_at(i), i < count, the     *)
(* i-th element, clear empties; a pop hands out exactly the element it     *)
(* removed, a push with an absent element adds a zero element, and a pop   *)
(* that finds nothing to remove leaves the sequence alone.                 *)
C9_AbstractSequence ==
    (last.op # "none" /\ stash_arr_is_valid(last.pre) /\ ~last.oom)
        => LET old == Live(last.pre)
               new == Live(array)
               n == Len(old)
               handed(v) == last.elem = NULL \/ last.out = Ptr(v)
           IN  /\ last.op = "arr_push_back"
                    => last.ret = STASH_SUCCESS /\ new = Append(old, ElemOrZero(last.elem))
               /\ last.op = "arr_push_front"
                    => last.ret = STASH_SUCCESS /\ new = <<ElemOrZero(last.elem)>> \o old
               /\ (last.op = "arr_pop_back" /\ n > 0)
                    => /\ last.ret = STASH_SUCCESS
                       /\ new = SubSeq(old, 1, n - 1)
                       /\ handed(old[n])
               /\ (last.op = "arr_pop_front" /\ n > 0)
                    => /\ last.ret = STASH_SUCCESS
                       /\ new = SubSeq(old, 2, n)
                       /\ handed(old[1])
               /\ (last.op = "arr_pop_at" /\ last.index < n)
                    => /\ last.ret = STASH_SUCCESS
                       /\ new = RemoveAt(old, last.index)
                       /\ handed(old[last.index + 1])
               /\ (last.op \in {"arr_pop_back", "arr_pop_front"} /\ n = 0)
                    => last.ret # STASH_SUCCESS /\ new = old
               /\ (last.op = "arr_pop_at" /\ last.index >= n)
                    => last.ret # STASH_SUCCESS /\ new = old
               /\ last.op = "arr_clear" => new = <<>>
               /\ stash_arr_is_valid(array)

(* C9 witness: pop_at removed an inner element of a three-element array    *)
(* and handed it out, after an earlier growth of the block.                *)
C9_Witness ==
    /\ last.op = "arr_pop_at" /\ last.ret = STASH_SUCCESS
    /\ stash_arr_is_valid(last.pre) /\ last.pre.count = 3 /\ last.index = 1 /\ last.elem # NULL
    /\ last.pre.capacity = 4 /\ last.pre.mem[1] # last.pre.mem[2]

(* --------------------------- table operations ------------------------- *)

MapLog(name, key, elem, r) ==
    [op |-> name, pre |-> table, key |-> key, elem |-> elem, ret |-> r.ret,
     oom |-> r.oom, out |-> r.out]

MapStep(name, key, elem, r) ==
    /\ table' = r.tab
    /\ last' = MapLog(name, key, elem, r)
    /\ pc' = "returned"
    /\ UNCHANGED <<array, reg, client>>

(* The allocator inputs of the reserve stash_umap_insert makes first.      *)
UmapReserveNDs(t) ==
    LET newSize == u_stash_next_po2_u64(t.buckets.count + 1)
    IN  IF stash_umap_is_valid(t) /\ t.buckets.count + 1 >= t.buckets.capacity
           /\ newSize > t.buckets.capacity
        THEN NDs(newSize * t.buckets.elem_size, EntryGarbage(newSize - Len(t.buckets.mem)))
        ELSE {NoAlloc}

UmapInsert ==
    /\ pc = "ready"
    /\ \E key \in Keys : \E value \in Elems : \E nd \in UmapReserveNDs(table) :
        \E vm \in BOOLEAN :
            MapStep("umap_insert", key, value, stash_umap_insert(table, key, value, nd, vm))

UmapRemove ==
    /\ pc = "ready"
    /\ \E key \in Keys : \E element \in {Ptr(0), NULL} :
        MapStep("umap_remove", key, element, stash_umap_remove(table, key, element))

UmapGet ==
    /\ pc = "ready"
    /\ \E key \in Keys : \E element \in {Ptr(0), NULL} :
        MapStep("umap_get", key, element, stash_umap_get(table, key, element))

UmapContains ==
    /\ pc = "ready"
    /\ \E key \in Keys :
        MapStep("umap_contains", key, NULL,
                TRes(table, IF stash_umap_contains(table, key) THEN 1 ELSE 0, NULL))

UmapClear ==
    /\ pc = "ready"
    /\ MapStep("umap_clear", 0, NULL, TRes(stash_umap_clear(table), STASH_SUCCESS, NULL))

InitMap ==
    /\ pc = "ready"
    /\ \E n \in 0..MaxBuckets :
        LET cap == IF n > 0 THEN n ELSE DefaultCapacity
        IN  \E nd \in NDs(cap * EntrySize, EntryGarbage(cap)) :
                table = stash_umap_create(n, ValueSize, nd)
    /\ array = 0
    /\ reg = 0
    /\ client = 0
    /\ last = NoLog

NextMap ==
    \/ UmapInsert
    \/ UmapRemove
    \/ UmapGet
    \/ UmapContains
    \/ UmapClear
    \/ Resume

SpecMap == InitMap /\ [][NextMap]_vars

(* ------------------------------ C1, C2, C8 ---------------------------- *)

Buckets(t) == 0..(t.buckets.count - 1)

(* Bucket i is reached from the home bucket of its key by linear probing   *)
(* without crossing an unoccupied bucket.                                  *)
ChainUnbroken(t, i) ==
    LET n == t.buckets.count
        home == u_stash_umap_hash_u32(EntryAt(t, i).key, n)
        d == (i - home + n) % n
    IN  \A s \in 0..(d - 1) : EntryAt(t, (home + s) % n).occupied

(* C1: every occupied entry is reachable from its key's home bucket by     *)
(* linear probing without crossing an unoccupied bucket, so contains and   *)
(* get succeed for every key stored in an occupied entry.                  *)
C1_ProbeChain ==
    stash_umap_is_valid(table)
        => \A i \in Buckets(table) :
              EntryAt(table, i).occupied
                 => /\ ChainUnbroken(table, i)
                    /\ stash_umap_contains(table, EntryAt(table, i).key)
                    /\ stash_umap_get(table, EntryAt(table, i).key, Ptr(0)).ret = STASH_SUCCESS

(* C2: no two occupied entries of the table carry the same key.            *)
C2_KeysDistinct ==
    stash_umap_is_valid(table)
        => \A i, j \in Buckets(table) :
              (i # j /\ EntryAt(table, i).occupied /\ EntryAt(table, j).occupied)
                 => EntryAt(table, i).key # EntryAt(table, j).key

(* C8: when insert(k, v) has returned OK, get(k) on the table it left      *)
(* returns OK with v; when remove(k) has returned OK, contains(k) on the   *)
(* table it left is false and get(k) returns KeyNotFound.                  *)
C8_RoundTrip ==
    /\ (last.op = "umap_insert" /\ last.ret = STASH_SUCCESS)
          => LET g == stash_umap_get(table, last.key, Ptr(0))
             IN  g.ret = STASH_SUCCESS /\ g.out = last.elem
    /\ (last.op = "umap_remove" /\ last.ret = STASH_SUCCESS)
          => /\ ~stash_umap_contains(table, last.key)
             /\ stash_umap_get(table, last.key, Ptr(0)).ret = STASH_ERROR_KEY_NOT_FOUND

(* C8 witness: an insert that returned OK after probing past its occupied  *)
(* home bucket, into a table that already held the same key further along  *)
(* (a copy a removal had cut off).                                         *)
C8_Witness ==
    /\ last.op = "umap_insert" /\ last.ret = STASH_SUCCESS
    /\ \E i \in Buckets(last.pre) :
          EntryAt(last.pre, i).occupied /\ EntryAt(last.pre, i).key = last.key

(* ------------------------------ stash_reg ----------------------------- *)
(* Memory model of the registry.  Its three arrays are stash_arr records.  *)
(* The functions of the registry reach memory through valid_flags.data and *)
(* through the pointer stash_arr_at gives, without looking at a capacity,  *)
(* so that an access can fall outside the block (undefined behaviour).     *)
(* Such an access either stops the program (pc = "crashed") or goes to the *)
(* memory at that address: fslack[i] is the byte at valid_flags.data + i   *)
(* when the block of valid_flags has no cell i, eslack the element at      *)
(* elements.data when the block of elements has no cell (elem_size 0).  A  *)
(* write through a null pointer that does not stop the program changes     *)
(* nothing the registry can read back.  When a block is reallocated, the   *)
(* memory beyond its old end is either carried along (nd.keep) or holds    *)
(* the indeterminate nd.s afterwards.                                      *)

MaxIds == 2         \* a fresh id is issued only while next_id <= MaxIds
MaxRegCap == 2      \* capacities passed to stash_reg_create: 0..MaxRegCap

FlagSize == 1       \* sizeof(bool)
IdSize == 4         \* sizeof(uint32_t)

(* (size_t)(uint32_t)(0 - 1), i.e. 2^32 - 1, is beyond the integers of the *)
(* checker; WrappedIndex stands for it.  It is only compared with counts   *)
(* and block sizes, which it exceeds like 2^32 - 1 does.                   *)
WrappedIndex == 2147483647

(* id - 1 in uint32_t *)
SlotOf(id) == IF id = 0 THEN WrappedIndex ELSE id - 1

Flags == {0, 1}

SlackIdx == 0..MaxIds

NoSlack == [i \in SlackIdx |-> 0]

(* Indeterminate contents of k new cells, one value of S for all of them.  *)
(* The registry reads no cell of a block before writing it, except a cell  *)
(* of valid_flags that takes the place of slack memory in use: only there  *)
(* is S more than one value.                                               *)
RegGarbage(k, S) == {[i \in 1..k |-> v] : v \in S}

NoAllocR == [m |-> TRUE, z |-> TRUE, g |-> <<>>, freed |-> FALSE, keep |-> TRUE, s |-> 0]

(* The allocator inputs nds, each with what becomes of the memory beyond   *)
(* the old block when the request succeeds and such memory is in use.      *)
WithSlack(nds, bytes, S, inUse) ==
    UNION {IF inUse /\ AllocOk(bytes, nd)
           THEN {[m |-> nd.m, z |-> nd.z, g |-> nd.g, freed |-> nd.freed, keep |-> TRUE, s |-> 0]}
                   \cup {[m |-> nd.m, z |-> nd.z, g |-> nd.g, freed |-> nd.freed, keep |-> FALSE, s |-> v] : v \in S}
           ELSE {[m |-> nd.m, z |-> nd.z, g |-> nd.g, freed |-> nd.freed, keep |-> TRUE, s |-> 0]} : nd \in nds}

stash_reg_create(capacity, elem_size, nd) ==
    [free_ids |-> stash_arr_create(capacity, IdSize, nd.i),
     valid_flags |-> stash_arr_create(capacity, FlagSize, nd.f),
     elements |-> stash_arr_create(capacity, elem_size, nd.e),
     elem_size |-> elem_size,
     next_id |-> 1,
     eslack |-> 0,
     fslack |-> NoSlack]

stash_reg_is_valid(r) ==
    /\ stash_arr_is_valid(r.valid_flags)
    /\ stash_arr_is_valid(r.elements)
    /\ stash_arr_is_valid(r.free_ids)

(* Byte i of valid_flags.data lies in the block.                           *)
FlagInBlock(r, i) == i < Len(r.valid_flags.mem)

(* reg->valid_flags.data[i], read as a bool *)
FlagByte(r, i) ==
    IF FlagInBlock(r, i) THEN r.valid_flags.mem[i + 1]
    ELSE IF i \in SlackIdx THEN r.fslack[i]
    ELSE 0

(* reg->valid_flags.data[i] = v, written as a bool *)
SetFlag(r, i, v) ==
    IF FlagInBlock(r, i) THEN [r EXCEPT !.valid_flags.mem[i + 1] = v]
    ELSE IF i \in SlackIdx THEN [r EXCEPT !.fslack[i] = v]
    ELSE r

stash_reg_exists(r, id) ==
    IF id = 0 \/ id >= r.next_id THEN FALSE ELSE FlagByte(r, id - 1) # 0

(* stash_reg_exists reads outside the block of valid_flags.               *)
ExistsUB(r, id) == ~(id = 0 \/ id >= r.next_id) /\ ~FlagInBlock(r, id - 1)

(* The element at the address stash_arr_at(&reg->elements, index) != NULL  *)
(* gives, read with reg->elem_size bytes.                                  *)
ElemRead(r, index) ==
    IF r.elements.elem_size = 0 THEN r.eslack ELSE r.elements.mem[index + 1]

(* memcpy / memset of reg->elem_size bytes to stash_arr_at(&reg->elements, *)
(* index).                                                                 *)
ElemWrite(r, index, v) ==
    IF stash_arr_at(r.elements, index) = NULL THEN r
    ELSE IF r.elements.elem_size = 0 THEN [r EXCEPT !.eslack = v]
    ELSE [r EXCEPT !.elements = Store(r.elements, index, v)]

(* An access of reg->elem_size > 0 bytes at stash_arr_at(&reg->elements,   *)
(* index) is outside the block (or through a null pointer).                *)
ElemUB(r, index) ==
    stash_arr_at(r.elements, index) = NULL \/ r.elements.elem_size < r.elem_size

(* Slack bytes of valid_flags that stash_reg_exists can read.              *)
FlagSlackInUse(r) == \E i \in SlackIdx : ~FlagInBlock(r, i) /\ i < r.next_id - 1

ElemSlackInUse(r) == r.elements.elem_size = 0 /\ r.elements.count > 0

(* The memory beyond the old blocks after the push_back calls of           *)
(* stash_reg_push turned registry r into r1.                               *)
AfterRealloc(r, r1, nd) ==
    LET fmoved == r1.valid_flags.capacity # r.valid_flags.capacity
        emoved == r1.elements.capacity # r.elements.capacity
        oldLen == Len(r.valid_flags.mem)
        inUse(i) == i >= oldLen /\ i < r.next_id - 1 /\ i \in SlackIdx
        fmem == [k \in 1..Len(r1.valid_flags.mem) |->
                    IF fmoved /\ nd.f.keep /\ inUse(k - 1) /\ (k - 1) # r.valid_flags.count
                    THEN r.fslack[k - 1] ELSE r1.valid_flags.mem[k]]
        fsl == [i \in SlackIdx |->
                    IF i < Len(r1.valid_flags.mem) THEN 0
                    ELSE IF fmoved /\ ~nd.f.keep /\ inUse(i) THEN nd.f.s
                    ELSE r.fslack[i]]
    IN  [r1 EXCEPT !.valid_flags.mem = fmem,
                   !.fslack = fsl,
                   !.eslack = IF emoved /\ r.elements.elem_size = 0 /\ ~nd.e.keep
                              THEN nd.e.s ELSE r.eslack]

RRes(r, ret, out, oom, ub) == [reg |-> r, ret |-> ret, out |-> out, oom |-> oom, ub |-> ub]

(* stash_reg_push taking the oldest retired id instead of the newest.      *)
stash_reg_push_Oldest(r, element, nd) ==
    LET reuse == r.free_ids.count > 0
        pf == stash_arr_pop_front(r.free_ids, Ptr(0))
        e1 == stash_arr_push_back(r.elements, NULL, nd.e)
        f1 == stash_arr_push_back(r.valid_flags, Ptr(1), nd.f)
        id == IF reuse THEN Deref(pf.out) ELSE r.next_id
        r1 == IF reuse THEN [r EXCEPT !.free_ids = pf.arr]
              ELSE [r EXCEPT !.elements = e1.arr, !.valid_flags = f1.arr,
                             !.next_id = r.next_id + 1]
    IN  [reg |-> SetFlag(ElemWrite(r1, SlotOf(id), ElemOrZero(element)), SlotOf(id), 1),
         ret |-> id, out |-> NULL, oom |-> FALSE, ub |-> FALSE]

(* nd.e, nd.f: the allocator's answers to the push_back of elements and of *)
(* valid_flags.  ub says whether the call made an access outside a block.  *)
stash_reg_push(r, element, nd) ==
    LET reuse == r.free_ids.count > 0
        pb == stash_arr_pop_back(r.free_ids, Ptr(0))
        e1 == stash_arr_push_back(r.elements, NULL, nd.e)
        f1 == stash_arr_push_back(r.valid_flags, Ptr(1), nd.f)
        id == IF reuse THEN Deref(pb.out) ELSE r.next_id
        r1 == IF reuse THEN [r EXCEPT !.free_ids = pb.arr]
              ELSE AfterRealloc(r, [r EXCEPT !.elements = e1.arr,
                                             !.valid_flags = f1.arr,
                                             !.next_id = r.next_id + 1], nd)
        r2 == ElemWrite(r1, SlotOf(id), ElemOrZero(element))
        r3 == SetFlag(r2, SlotOf(id), 1)
    IN  RRes(r3, id, NULL, ~reuse /\ (e1.oom \/ f1.oom),
             ElemUB(r1, SlotOf(id)) \/ ~FlagInBlock(r1, SlotOf(id)))

(* stash_reg_pop leaving the validity flag of the id set.                  *)
stash_reg_pop_FlagKept(r, id, element, nd) ==
    IF ~stash_reg_exists(r, id)
    THEN [reg |-> r, ret |-> 0, out |-> NULL, oom |-> FALSE, ub |-> FALSE]
    ELSE [reg |-> [r EXCEPT !.free_ids = stash_arr_push_back(r.free_ids, Ptr(id), nd.i).arr],
          ret |-> 1, out |-> NULL, oom |-> FALSE, ub |-> FALSE]

(* nd.i: the allocator's answer to the push_back of free_ids; nd.s: what a *)
(* read through a null pointer yields when it does not stop the program.   *)
stash_reg_pop(r, id, element, nd) ==
    IF ~stash_reg_exists(r, id) THEN RRes(r, 0, NULL, FALSE, ExistsUB(r, id))
    ELSE LET elem == stash_arr_at(r.elements, id - 1)
             out == IF element = NULL THEN NULL
                    ELSE IF elem = NULL THEN Ptr(nd.s)
                    ELSE Ptr(ElemRead(r, id - 1))
             p1 == stash_arr_push_back(r.free_ids, Ptr(id), nd.i)
             r1 == [r EXCEPT !.free_ids = p1.arr]
         IN  RRes(SetFlag(r1, id - 1, 0), 1, out, p1.oom,
                  \/ ExistsUB(r, id)
                  \/ (element # NULL /\ ElemUB(r, id - 1))
                  \/ ~FlagInBlock(r1, id - 1))

stash_reg_get(r, id) ==
    IF ~stash_reg_exists(r, id) THEN NULL ELSE stash_arr_at(r.elements, id - 1)

(* What the client reads through the pointer stash_reg_get returns: NULL   *)
(* when the pointer is null, else a buffer with the element.               *)
GetValue(r, id) ==
    IF stash_reg_get(r, id) = NULL THEN NULL ELSE Ptr(ElemRead(r, id - 1))

(* ------------------------ cursors of the table ------------------------ *)

(* (size_t)(uintptr_t)p of an address in a block: it exceeds every index.  *)
HeapAddress == 2147483646

(* (size_t)(uintptr_t)p *)
PtrToInt(p) == IF p = NULL THEN 0 ELSE IF p[1] = "abs" THEN p[2] ELSE HeapAddress

(* entry && entry->occupied for entry = stash_arr_at(&table->buckets, i)   *)
Occupied(t, i) == stash_arr_at(t.buckets, i) # NULL /\ EntryAt(t, i).occupied

(* entry->value of bucket i, as an address                                 *)
ValPtr(t, i) == IF EntryAt(t, i).value = NULL THEN NULL ELSE <<"val", i>>

(* The first occupied bucket at or after i, or an index >= buckets.count.  *)
RECURSIVE ScanUp(_, _)
ScanUp(t, i) ==
    IF i >= t.buckets.count \/ Occupied(t, i) THEN i ELSE ScanUp(t, i + 1)

(* while (i > 0) { if (occupied) break; i--; }  Buckets at or beyond       *)
(* buckets.count are absent, so the scan reaches buckets.count unstopped.  *)
RECURSIVE ScanDown(_, _)
ScanDown(t, i) ==
    IF i > 0 /\ ~Occupied(t, i)
    THEN ScanDown(t, IF i > t.buckets.count THEN t.buckets.count ELSE i - 1)
    ELSE i

(* The last occupied bucket at or before i, or -1.                         *)
RECURSIVE ScanLast(_, _)
ScanLast(t, i) == IF i < 0 \/ Occupied(t, i) THEN i ELSE ScanLast(t, i - 1)

stash_umap_begin(t) ==
    IF ~stash_umap_is_valid(t) \/ t.count = 0 THEN ZeroIt
    ELSE LET i == ScanUp(t, 0)
             next_idx == ScanUp(t, i + 1)
         IN  IF i >= t.buckets.count THEN ZeroIt
             ELSE [curr |-> ValPtr(t, i), prev |-> Abs(i),
                   next |-> IF next_idx >= t.buckets.count THEN NULL
                            ELSE ValPtr(t, next_idx)]

stash_umap_end(t) ==
    IF ~stash_umap_is_valid(t) \/ t.count = 0 THEN ZeroIt
    ELSE LET i == ScanLast(t, t.buckets.count - 1)
         IN  IF i < 0 THEN ZeroIt
             ELSE [curr |-> ValPtr(t, i), prev |-> Abs(i), next |-> NULL]

stash_umap_previous(t, it) ==
    IF ~stash_umap_is_valid(t) \/ t.count = 0 THEN it
    ELSE IF it.curr = NULL THEN (IF it.next # NULL THEN it ELSE stash_umap_end(t))
    ELSE LET curr_idx == PtrToInt(it.prev)
             prev_idx == ScanDown(t, curr_idx - 1)
             before == [curr |-> NULL, prev |-> NULL, next |-> it.curr]
         IN  IF curr_idx > 0 /\ Occupied(t, prev_idx)
             THEN [curr |-> ValPtr(t, prev_idx), next |-> it.curr, prev |-> Abs(prev_idx)]
             ELSE before

(* stash_umap_next leaving the bucket index in prev when it steps off the   *)
(* last element.                                                           *)
stash_umap_next_KeepIndex(t, it) ==
    IF ~stash_umap_is_valid(t) \/ t.count = 0 THEN it
    ELSE IF it.curr = NULL THEN (IF it.prev # NULL THEN it ELSE stash_umap_begin(t))
    ELSE IF it.next = NULL THEN [it EXCEPT !.curr = NULL]
    ELSE LET next_idx == ScanUp(t, PtrToInt(it.prev) + 1)
             next_next_idx == ScanUp(t, next_idx + 1)
         IN  IF next_idx < t.buckets.count
             THEN [curr |-> ValPtr(t, next_idx), prev |-> Abs(next_idx),
                   next |-> IF next_next_idx >= t.buckets.count THEN NULL
                            ELSE ValPtr(t, next_next_idx)]
             ELSE [curr |-> NULL, prev |-> it.curr, next |-> NULL]

stash_umap_next(t, it) ==
    IF ~stash_umap_is_valid(t) \/ t.count = 0 THEN it
    ELSE IF it.curr = NULL THEN (IF it.prev # NULL THEN it ELSE stash_umap_begin(t))
    ELSE IF it.next = NULL THEN [it EXCEPT !.prev = it.curr, !.curr = NULL]
    ELSE LET next_idx == ScanUp(t, PtrToInt(it.prev) + 1)
             next_next_idx == ScanUp(t, next_idx + 1)
         IN  IF next_idx < t.buckets.count
             THEN [curr |-> ValPtr(t, next_idx), prev |-> Abs(next_idx),
                   next |-> IF next_next_idx >= t.buckets.count THEN NULL
                            ELSE ValPtr(t, next_next_idx)]
             ELSE [curr |-> NULL, prev |-> it.curr, next |-> NULL]

(* ----------------------- cursors of the registry ---------------------- *)

(* reg->valid_flags.data[id - 1], read as a bool *)
FlagOn(r, id) == FlagByte(r, id - 1) # 0

(* A read of the flags of ids lo..hi falls outside the block.              *)
FlagsReadUB(r, lo, hi) == \E id \in lo..hi : id >= 1 /\ ~FlagInBlock(r, id - 1)

(* stash_arr_at(&reg->elements, index), as an address                      *)
RegAt(r, index) ==
    IF stash_arr_at(r.elements, index) = NULL THEN NULL
    ELSE DataPtr(r.elements, index * r.elements.elem_size)

(* while (id < reg->next_id && !flag[id - 1]) id++; *)
RECURSIVE NextLive(_, _)
NextLive(r, id) ==
    IF id < r.next_id /\ ~FlagOn(r, id) THEN NextLive(r, id + 1) ELSE id

(* while (id >= 1 && !flag[id - 1]) id--;  The flags beyond the slack      *)
(* memory are not set, so the scan reaches the slack memory unstopped.     *)
RECURSIVE PrevLive(_, _)
PrevLive(r, id) ==
    IF id >= 1 /\ ~FlagOn(r, id)
    THEN PrevLive(r, IF id > MaxIds + 1 THEN MaxIds + 1 ELSE id - 1)
    ELSE id

Min(a, b) == IF a < b THEN a ELSE b

stash_reg_begin(r) ==
    LET id == NextLive(r, 1)
        next_id == NextLive(r, id + 1)
    IN  IF r.elements.count = 0 \/ id >= r.next_id THEN ZeroIt
        ELSE [curr |-> RegAt(r, id - 1), prev |-> Abs(id),
              next |-> IF next_id < r.next_id THEN RegAt(r, next_id - 1) ELSE NULL]

BeginUB(r) ==
    /\ r.elements.count # 0
    /\ FlagsReadUB(r, 1, Min(NextLive(r, NextLive(r, 1) + 1), r.next_id - 1))

stash_reg_end(r) ==
    LET id == PrevLive(r, r.next_id - 1)
    IN  IF r.elements.count = 0 \/ id < 1 THEN ZeroIt
        ELSE [curr |-> RegAt(r, id - 1), prev |-> Abs(id), next |-> NULL]

EndUB(r) ==
    /\ r.elements.count # 0
    /\ FlagsReadUB(r, PrevLive(r, PrevLive(r, r.next_id - 1) - 1), r.next_id - 1)

(* curr_id - 1 in uint32_t *)
stash_reg_previous(r, it) ==
    IF r.elements.count = 0 THEN it
    ELSE IF it.curr = NULL THEN (IF it.next # NULL THEN it ELSE stash_reg_end(r))
    ELSE LET prev_id == PrevLive(r, SlotOf(PtrToInt(it.prev)))
         IN  IF prev_id >= 1
             THEN [curr |-> RegAt(r, prev_id - 1), next |-> it.curr, prev |-> Abs(prev_id)]
             ELSE [curr |-> NULL, prev |-> NULL, next |-> it.curr]

PreviousUB(r, it) ==
    /\ r.elements.count # 0
    /\ IF it.curr = NULL THEN it.next = NULL /\ EndUB(r)
       ELSE FlagsReadUB(r, PrevLive(r, SlotOf(PtrToInt(it.prev))),
                        SlotOf(PtrToInt(it.prev)))

stash_reg_next(r, it) ==
    IF r.elements.count = 0 THEN it
    ELSE IF it.curr = NULL THEN (IF it.prev # NULL THEN it ELSE stash_reg_begin(r))
    ELSE IF it.next = NULL THEN [it EXCEPT !.prev = it.curr, !.curr = NULL]
    ELSE LET next_id == NextLive(r, PtrToInt(it.prev) + 1)
             next_next_id == NextLive(r, next_id + 1)
         IN  [curr |-> it.next, prev |-> Abs(next_id),
              next |-> IF next_id < r.next_id /\ next_next_id < r.next_id
                       THEN RegAt(r, next_next_id - 1) ELSE NULL]

NextUB(r, it) ==
    /\ r.elements.count # 0
    /\ IF it.curr = NULL THEN it.prev = NULL /\ BeginUB(r)
       ELSE /\ it.next # NULL
            /\ FlagsReadUB(r, PtrToInt(it.prev) + 1,
                           Min(NextLive(r, NextLive(r, PtrToInt(it.prev) + 1) + 1),
                               r.next_id - 1))

(* -------------------------- registry operations ---------------------- *)

(* The allocator inputs of a stash_arr_push_back on array a.               *)
GrowNDs(a, S, inUse) ==
    IF a.count < a.capacity THEN {NoAllocR}
    ELSE LET n == u_stash_next_po2_u64(a.count + 1)
         IN  WithSlack(NDs(n * a.elem_size, RegGarbage(Cells(n, a.elem_size) - Len(a.mem), S)),
                       n * a.elem_size, S, inUse)

PushNDs(r) ==
    IF r.free_ids.count > 0 THEN {[e |-> NoAllocR, f |-> NoAllocR]}
    ELSE {[e |-> a, f |-> b] :
            a \in GrowNDs(r.elements, IF ElemSlackInUse(r) THEN Vals ELSE {0},
                          ElemSlackInUse(r)),
            b \in GrowNDs(r.valid_flags, IF FlagSlackInUse(r) THEN Flags ELSE {0},
                          FlagSlackInUse(r))}

PopNDs(r, id, element) ==
    IF ~stash_reg_exists(r, id) THEN {[i |-> NoAllocR, s |-> 0]}
    ELSE {[i |-> a, s |-> v] :
            a \in GrowNDs(r.free_ids, {0}, FALSE),
            v \in IF element # NULL /\ stash_arr_at(r.elements, id - 1) = NULL
                  THEN Vals ELSE {0}}

CreateNDs(capacity, elem_size) ==
    {[i |-> a, f |-> b, e |-> c] :
        a \in NDs(capacity * IdSize, RegGarbage(capacity, {0})),
        b \in NDs(capacity * FlagSize, RegGarbage(capacity, {0})),
        c \in NDs(capacity * elem_size, RegGarbage(capacity, {0}))}

(* An access outside a block stops the program or goes on.                 *)
Crashes(r) == IF r.ub THEN BOOLEAN ELSE {FALSE}

Ids == 0..MaxIds

(* What the client knows of its handles: held[i] is the value it pushed    *)
(* for the id i it holds (NULL when it holds no id i), retired the ids it  *)
(* popped and was not given again, in the order it popped them.            *)
ClientAfter(name, id, elem, r, crash) ==
    LET issued == name = "reg_push" /\ ~crash /\ r.ret \in 1..MaxIds
        popped == name = "reg_pop" /\ ~crash /\ r.ret = 1
    IN  [held |-> [i \in 1..MaxIds |->
                     IF issued /\ i = r.ret THEN Ptr(ElemOrZero(elem))
                     ELSE IF popped /\ i = id THEN NULL
                     ELSE client.held[i]],
         retired |-> IF issued THEN SelectSeq(client.retired, LAMBDA x : x # r.ret)
                     ELSE IF popped THEN Append(client.retired, id)
                     ELSE client.retired]

RegStep(name, id, elem, r, crash) ==
    /\ reg' = IF crash THEN reg ELSE r.reg
    /\ last' = [op |-> name, pre |-> reg, id |-> id, elem |-> elem, ret |-> r.ret,
                oom |-> r.oom, ub |-> r.ub, out |-> r.out]
    /\ pc' = IF crash THEN "crashed" ELSE "returned"
    /\ client' = ClientAfter(name, id, elem, r, crash)
    /\ UNCHANGED <<array, table>>

RegPush ==
    /\ pc = "ready"
    /\ reg.free_ids.count > 0 \/ reg.next_id <= MaxIds
    /\ \E element \in Elems :
        \E nd \in {n \in PushNDs(reg) : n.e.m /\ n.f.m} :
            LET r == stash_reg_push(reg, element, nd)
            IN  \E crash \in Crashes(r) : RegStep("reg_push", 0, element, r, crash)

RegPop ==
    /\ pc = "ready"
    /\ \E id \in Ids : \E element \in {Ptr(0), NULL} :
        \E nd \in {n \in PopNDs(reg, id, element) : n.i.m} :
            LET r == stash_reg_pop(reg, id, element, nd)
            IN  \E crash \in Crashes(r) : RegStep("reg_pop", id, element, r, crash)

RegExists ==
    /\ pc = "ready"
    /\ \E id \in Ids :
        LET r == RRes(reg, IF stash_reg_exists(reg, id) THEN 1 ELSE 0, NULL, FALSE,
                      ExistsUB(reg, id))
        IN  \E crash \in Crashes(r) : RegStep("reg_exists", id, NULL, r, crash)

(* stash_reg_get, and the client's read of the element it points to.       *)
RegGet ==
    /\ pc = "ready"
    /\ \E id \in Ids :
        LET r == RRes(reg, 0, GetValue(reg, id), FALSE,
                      \/ ExistsUB(reg, id)
                      \/ (stash_reg_get(reg, id) # NULL /\ ElemUB(reg, id - 1)))
        IN  \E crash \in Crashes(r) : RegStep("reg_get", id, NULL, r, crash)

InitReg ==
    /\ pc = "ready"
    /\ \E capacity \in 0..MaxRegCap :
        \E nd \in {n \in CreateNDs(capacity, ElemSize) : n.i.m /\ n.f.m /\ n.e.m} :
            reg = stash_reg_create(capacity, ElemSize, nd)
    /\ client = [held |-> [i \in 1..MaxIds |-> NULL], retired |-> <<>>]
    /\ array = 0
    /\ table = 0
    /\ last = NoLog

NextReg ==
    \/ RegPush
    \/ RegPop
    \/ RegExists
    \/ RegGet
    \/ Resume

SpecReg == InitReg /\ [][NextReg]_vars

(* ------------------------------ C5, C6, C7 ---------------------------- *)

(* The stack of retired ids, oldest first.                                 *)
FreeIds(r) == Live(r.free_ids)

Occurrences(seq, x) == Cardinality({k \in 1..Len(seq) : seq[k] = x})

(* C5: in a registry created with a positive capacity and element size     *)
(* (allocations succeeding), elements.count = valid_flags.count; every id  *)
(* in [1, next_id) is either live or exactly once in free_ids, never both; *)
(* free_ids holds no duplicate, no 0 and no value >= next_id.              *)
C5_Structure ==
    (stash_reg_is_valid(reg) /\ pc # "crashed")
        => /\ reg.elements.count = reg.valid_flags.count
           /\ \A id \in 1..(reg.next_id - 1) :
                 LET live == FlagByte(reg, id - 1) # 0
                     n == Occurrences(FreeIds(reg), id)
                 IN  (live /\ n = 0) \/ (~live /\ n = 1)
           /\ \A k \in 1..reg.free_ids.count :
                 /\ FreeIds(reg)[k] # 0
                 /\ FreeIds(reg)[k] < reg.next_id
                 /\ Occurrences(FreeIds(reg), FreeIds(reg)[k]) = 1

(* C5 witness: a pop has just retired an id of a registry that has grown   *)
(* its arrays, while another id is live.                                   *)
C5_Witness ==
    /\ last.op = "reg_pop" /\ last.ret = 1
    /\ stash_reg_is_valid(reg)
    /\ reg.elements.capacity > last.pre.next_id - 1
    /\ reg.elements.count = MaxIds
    /\ reg.free_ids.count >= 1
    /\ \E id \in 1..MaxIds : stash_reg_exists(reg, id)

(* C6: on a registry created with a positive capacity, push returns a      *)
(* non-zero id that was not live before the call; when free_ids is not     *)
(* empty it is the most recently retired id still on the stack and next_id *)
(* is unchanged, otherwise it is the old next_id and next_id grows by one. *)
(* The stack free_ids holds the retired ids in the order of retirement.    *)
C6_IdAllocation ==
    /\ (stash_reg_is_valid(reg) /\ pc # "crashed") => FreeIds(reg) = client.retired
    /\ (last.op = "reg_push" /\ pc = "returned" /\ stash_reg_is_valid(last.pre))
          => /\ last.ret # 0
             /\ ~stash_reg_exists(last.pre, last.ret)
             /\ IF last.pre.free_ids.count > 0
                THEN /\ last.ret = FreeIds(last.pre)[last.pre.free_ids.count]
                     /\ reg.next_id = last.pre.next_id
                ELSE /\ last.ret = last.pre.next_id
                     /\ reg.next_id = last.pre.next_id + 1

(* C6 witness: a push that took an id from a stack of two retired ids.     *)
C6_Witness ==
    /\ last.op = "reg_push" /\ pc = "returned"
    /\ stash_reg_is_valid(last.pre)
    /\ last.pre.free_ids.count = 2
    /\ FreeIds(last.pre)[1] # FreeIds(last.pre)[2]
    /\ last.ret = FreeIds(last.pre)[2]

(* C7: an id the client holds exists and get yields the value the client   *)
(* pushed for it, whatever pushes and pops of other ids were made since;   *)
(* get is absent for an id the client popped and was not given again.      *)
C7_HandleStability ==
    pc # "crashed"
        => \A i \in 1..MaxIds :
              /\ client.held[i] # NULL
                    => /\ stash_reg_exists(reg, i)
                       /\ GetValue(reg, i) = client.held[i]
              /\ (\E k \in 1..Len(client.retired) : client.retired[k] = i)
                    => stash_reg_get(reg, i) = NULL

(* ------------------------- the registry example ---------------------- *)
(* The client program                                                      *)
(*     r := stash_reg_create(capacity, 4);                                 *)
(*     a := stash_reg_push(&r, &10);  b := stash_reg_push(&r, &20);        *)
(*     stash_reg_pop(&r, a, NULL);    c := stash_reg_push(&r, &30);        *)
(* with pc the statement it is about to run, and every answer the          *)
(* allocator can give.                                                     *)

ExampleStep(r, crash, next, cl) ==
    /\ reg' = IF crash THEN reg ELSE r.reg
    /\ last' = [op |-> pc, pre |-> reg, id |-> 0, elem |-> NULL, ret |-> r.ret,
                oom |-> r.oom, ub |-> r.ub, out |-> r.out]
    /\ pc' = IF crash THEN "crashed" ELSE next
    /\ client' = IF crash THEN client ELSE cl
    /\ UNCHANGED <<array, table>>

ExamplePushA ==
    /\ pc = "push_a"
    /\ \E nd \in PushNDs(reg) :
        LET r == stash_reg_push(reg, Ptr(10), nd)
        IN  \E crash \in Crashes(r) :
                ExampleStep(r, crash, "push_b", [client EXCEPT !.a = r.ret])

ExamplePushB ==
    /\ pc = "push_b"
    /\ \E nd \in PushNDs(reg) :
        LET r == stash_reg_push(reg, Ptr(20), nd)
        IN  \E crash \in Crashes(r) :
                ExampleStep(r, crash, "pop_a", [client EXCEPT !.b = r.ret])

ExamplePopA ==
    /\ pc = "pop_a"
    /\ \E nd \in PopNDs(reg, client.a, NULL) :
        LET r == stash_reg_pop(reg, client.a, NULL, nd)
        IN  \E crash \in Crashes(r) :
                ExampleStep(r, crash, "push_c", [client EXCEPT !.popped = r.ret])

ExamplePushC ==
    /\ pc = "push_c"
    /\ \E nd \in PushNDs(reg) :
        LET r == stash_reg_push(reg, Ptr(30), nd)
        IN  \E crash \in Crashes(r) :
                ExampleStep(r, crash, "done", [client EXCEPT !.c = r.ret])

InitExample ==
    /\ pc = "push_a"
    /\ \E capacity \in 0..MaxRegCap : \E nd \in CreateNDs(capacity, ElemSize) :
        /\ reg = stash_reg_create(capacity, ElemSize, nd)
        /\ client = [capacity |-> capacity, a |-> 0, b |-> 0, popped |-> 0, c |-> 0]
    /\ array = 0
    /\ table = 0
    /\ last = NoLog

NextExample ==
    \/ ExamplePushA
    \/ ExamplePushB
    \/ ExamplePopA
    \/ ExamplePushC

SpecExample == InitExample /\ [][NextExample]_vars

(* C10: on a registry created with capacity 0 and a 4-byte element size,   *)
(* a := push(10); b := push(20); pop(a); c := push(30) yields a = 1, b = 2 *)
(* and c = 1, after which get(1) is 30, get(2) is 20 and exists(0) is      *)
(* false.  Stated of the program once it has run its last statement.       *)
C10_Example ==
    (client.capacity = 0 /\ last.op = "push_c")
        => /\ pc = "done"
           /\ client.a = 1
           /\ client.b = 2
           /\ client.c = 1
           /\ GetValue(reg, 1) = Ptr(30)
           /\ GetValue(reg, 2) = Ptr(20)
           /\ ~stash_reg_exists(reg, 0)

(* --------------------------- the cursor client ------------------------ *)
(* A client that owns one container (client.kind) and one cursor           *)
(* (client.it, in use when client.held).  It changes the container with    *)
(* the calls below, giving up the cursor it held (a change of the          *)
(* container invalidates it), takes a cursor with begin or end and moves   *)
(* the cursor it holds with next and previous.  The cursor functions read  *)
(* no element, so that the client stores one value only.                   *)

MaxAddr == 8        \* a step of a cursor beyond MaxAddr bytes from the null pointer is not taken

(* The indeterminate contents of k cells the client never reads.           *)
Unread(k) == {[i \in 1..k |-> 0]}

AddrOk(p) ==
    IF p = NULL THEN TRUE
    ELSE IF p[1] # "abs" THEN TRUE
    ELSE p[2] <= MaxAddr /\ 0 - p[2] <= MaxAddr

(* A call of a cursor function that returned cursor `it`, or stopped the   *)
(* program (crash).                                                        *)
ItStep(name, it, crash) ==
    /\ AddrOk(it.curr) /\ AddrOk(it.prev) /\ AddrOk(it.next)
    /\ client' = IF crash THEN client ELSE [client EXCEPT !.it = it, !.held = TRUE]
    /\ last' = [op |-> name, pre |-> client.it]
    /\ pc' = IF crash THEN "crashed" ELSE "returned"
    /\ UNCHANGED <<array, table, reg>>

(* A call that changes the container.                                      *)
ItChange(name, a, t, r, crash) ==
    /\ array' = IF crash THEN array ELSE a
    /\ table' = IF crash THEN table ELSE t
    /\ reg' = IF crash THEN reg ELSE r
    /\ client' = [client EXCEPT !.it = ZeroIt, !.held = FALSE]
    /\ last' = [op |-> name, pre |-> client.it]
    /\ pc' = IF crash THEN "crashed" ELSE "returned"

(* The answers to a comparison of the addresses p and q.                   *)
CmpNDs(p, q) == IF Comparable(p, q) THEN {FALSE} ELSE BOOLEAN

ItArrPushBack ==
    /\ pc = "ready" /\ client.kind = "arr"
    /\ PushCap(array) <= MaxCap
    /\ \E nd \in IF array.capacity >= PushCap(array) THEN {NoAlloc}
                 ELSE NDs(PushCap(array) * array.elem_size,
                          Unread(Cells(PushCap(array), array.elem_size) - Len(array.mem))) :
        ItChange("arr_push_back", stash_arr_push_back(array, Ptr(0), nd).arr, table, reg, FALSE)

ItArrPopBack ==
    /\ pc = "ready" /\ client.kind = "arr"
    /\ ItChange("arr_pop_back", stash_arr_pop_back(array, NULL).arr, table, reg, FALSE)

ItArrBegin ==
    /\ pc = "ready" /\ client.kind = "arr"
    /\ ItStep("arr_begin", stash_arr_begin(array), FALSE)

ItArrEnd ==
    /\ pc = "ready" /\ client.kind = "arr"
    /\ ItStep("arr_end", stash_arr_end(array), FALSE)

ItArrNext ==
    /\ pc = "ready" /\ client.kind = "arr" /\ client.held
    /\ \E cmp \in CmpNDs(ArrNextProbe(array, client.it),
                         DataPtr(array, array.count * array.elem_size)) :
        ItStep("arr_next", stash_arr_next(array, client.it, cmp), FALSE)

ItArrPrevious ==
    /\ pc = "ready" /\ client.kind = "arr" /\ client.held
    /\ \E cmp \in CmpNDs(ArrPrevProbe(array, client.it), DataPtr(array, 0)) :
        ItStep("arr_previous", stash_arr_previous(array, client.it, cmp), FALSE)

ItUmapInsert ==
    /\ pc = "ready" /\ client.kind = "map"
    /\ \E key \in Keys : \E vm \in BOOLEAN :
        \E nd \in {n \in UmapReserveNDs(table) : n.g = <<>> \/ n.g[1] = default_entry} :
            ItChange("umap_insert", array,
                     stash_umap_insert(table, key, Ptr(0), nd, vm).tab, reg, FALSE)

ItUmapRemove ==
    /\ pc = "ready" /\ client.kind = "map"
    /\ \E key \in Keys :
        ItChange("umap_remove", array, stash_umap_remove(table, key, NULL).tab, reg, FALSE)

ItUmapBegin ==
    /\ pc = "ready" /\ client.kind = "map"
    /\ ItStep("umap_begin", stash_umap_begin(table), FALSE)

ItUmapEnd ==
    /\ pc = "ready" /\ client.kind = "map"
    /\ ItStep("umap_end", stash_umap_end(table), FALSE)

ItUmapNext ==
    /\ pc = "ready" /\ client.kind = "map" /\ client.held
    /\ ItStep("umap_next", stash_umap_next(table, client.it), FALSE)

ItUmapPrevious ==
    /\ pc = "ready" /\ client.kind = "map" /\ client.held
    /\ ItStep("umap_previous", stash_umap_previous(table, client.it), FALSE)

ItRegPush ==
    /\ pc = "ready" /\ client.kind = "reg"
    /\ reg.free_ids.count > 0 \/ reg.next_id <= MaxIds
    /\ \E nd \in {n \in PushNDs(reg) : n.e.m /\ n.f.m} :
        LET r == stash_reg_push(reg, Ptr(0), nd)
        IN  \E crash \in Crashes(r) : ItChange("reg_push", array, table, r.reg, crash)

ItRegPop ==
    /\ pc = "ready" /\ client.kind = "reg"
    /\ \E id \in Ids : \E nd \in {n \in PopNDs(reg, id, NULL) : n.i.m} :
        LET r == stash_reg_pop(reg, id, NULL, nd)
        IN  \E crash \in Crashes(r) : ItChange("reg_pop", array, table, r.reg, crash)

ItRegBegin ==
    /\ pc = "ready" /\ client.kind = "reg"
    /\ \E crash \in Crashes([ub |-> BeginUB(reg)]) :
        ItStep("reg_begin", stash_reg_begin(reg), crash)

ItRegEnd ==
    /\ pc = "ready" /\ client.kind = "reg"
    /\ \E crash \in Crashes([ub |-> EndUB(reg)]) :
        ItStep("reg_end", stash_reg_end(reg), crash)

ItRegNext ==
    /\ pc = "ready" /\ client.kind = "reg" /\ client.held
    /\ \E crash \in Crashes([ub |-> NextUB(reg, client.it)]) :
        ItStep("reg_next", stash_reg_next(reg, client.it), crash)

ItRegPrevious ==
    /\ pc = "ready" /\ client.kind = "reg" /\ client.held
    /\ \E crash \in Crashes([ub |-> PreviousUB(reg, client.it)]) :
        ItStep("reg_previous", stash_reg_previous(reg, client.it), crash)

InitIt ==
    /\ pc = "ready"
    /\ last = NoLog
    /\ \/ /\ client = [kind |-> "arr", it |-> ZeroIt, held |-> FALSE]
          /\ \E c \in 0..MaxInitCap : \E nd \in NDs(c * ElemSize, Unread(c)) :
                array = stash_arr_create(c, ElemSize, nd)
          /\ table = 0
          /\ reg = 0
       \/ /\ client = [kind |-> "map", it |-> ZeroIt, held |-> FALSE]
          /\ \E n \in 0..MaxBuckets :
                LET cap == IF n > 0 THEN n ELSE DefaultCapacity
                IN  \E nd \in NDs(cap * EntrySize, {[i \in 1..cap |-> default_entry]}) :
                        table = stash_umap_create(n, ValueSize, nd)
          /\ array = 0
          /\ reg = 0
       \/ /\ client = [kind |-> "reg", it |-> ZeroIt, held |-> FALSE]
          /\ \E capacity \in 0..MaxRegCap :
                \E nd \in {n \in CreateNDs(capacity, ElemSize) : n.i.m /\ n.f.m /\ n.e.m} :
                    reg = stash_reg_create(capacity, ElemSize, nd)
          /\ array = 0
          /\ table = 0

NextIt ==
    \/ ItArrPushBack
    \/ ItArrPopBack
    \/ ItArrBegin
    \/ ItArrEnd
    \/ ItArrNext
    \/ ItArrPrevious
    \/ ItUmapInsert
    \/ ItUmapRemove
    \/ ItUmapBegin
    \/ ItUmapEnd
    \/ ItUmapNext
    \/ ItUmapPrevious
    \/ ItRegPush
    \/ ItRegPop
    \/ ItRegBegin
    \/ ItRegEnd
    \/ ItRegNext
    \/ ItRegPrevious
    \/ Resume

SpecIt == InitIt /\ [][NextIt]_vars

(* --------------------------------- C11 -------------------------------- *)

(* The addresses of the first and of the last live slot.                   *)
FirstSlot(a) == DataPtr(a, 0)

LastSlot(a) == DataPtr(a, (a.count - 1) * a.elem_size)

(* p is absent or the address of one of the slots [0, count).              *)
InSlots(a, p) == p = NULL \/ \E i \in 0..(a.count - 1) : p = DataPtr(a, i * a.elem_size)

(* The cursor after the last element.                                      *)
ArrPostEnd(a, it) == it.curr = NULL /\ it.prev = LastSlot(a)

CursorCalls == {"arr_begin", "arr_end", "arr_next", "arr_previous"}

(* C11: on a valid, non-empty array, next on the cursor of the last element *)
(* (next absent) yields the post-end cursor, current absent and previous   *)
(* the last element; next on that cursor changes nothing and previous      *)
(* returns to the last element; previous on the cursor of the first        *)
(* element yields the pre-begin cursor, current absent and next the first  *)
(* element; no field of a cursor is an address outside the slots           *)
(* [0, count).                                                             *)
C11_ArrSentinels ==
    (client.kind = "arr" /\ pc = "returned" /\ stash_arr_is_valid(array) /\ array.count > 0)
        => /\ (last.op = "arr_next" /\ last.pre.curr = LastSlot(array) /\ last.pre.next = NULL)
                 => ArrPostEnd(array, client.it)
           /\ (last.op = "arr_next" /\ ArrPostEnd(array, last.pre))
                 => client.it = last.pre
           /\ (last.op = "arr_previous" /\ ArrPostEnd(array, last.pre))
                 => client.it.curr = LastSlot(array)
           /\ (last.op = "arr_previous" /\ last.pre.curr = FirstSlot(array)
                                        /\ last.pre.prev = NULL)
                 => client.it.curr = NULL /\ client.it.next = FirstSlot(array)
           /\ last.op \in CursorCalls
                 => /\ InSlots(array, client.it.curr)
                    /\ InSlots(array, client.it.prev)
                    /\ InSlots(array, client.it.next)

(* --------------------------------- C12 -------------------------------- *)

(* The elements the walk from cursor `it` visits, by next (fwd) or by      *)
(* previous, until current is absent; at most `fuel` of them.              *)
RECURSIVE ArrWalk(_, _, _, _, _)
ArrWalk(a, it, fwd, cmp, fuel) ==
    IF it.curr = NULL \/ fuel = 0 THEN <<>>
    ELSE <<it.curr>> \o ArrWalk(a, IF fwd THEN stash_arr_next(a, it, cmp)
                                   ELSE stash_arr_previous(a, it, cmp), fwd, cmp, fuel - 1)

RECURSIVE UmapWalk(_, _, _, _)
UmapWalk(t, it, fwd, fuel) ==
    IF it.curr = NULL \/ fuel = 0 THEN <<>>
    ELSE <<it.curr>> \o UmapWalk(t, IF fwd THEN stash_umap_next(t, it)
                                    ELSE stash_umap_previous(t, it), fwd, fuel - 1)

(* The registry walk notes the id the cursor carries with each element.    *)
RECURSIVE RegWalk(_, _, _, _)
RegWalk(r, it, fwd, fuel) ==
    IF it.curr = NULL \/ fuel = 0 THEN <<>>
    ELSE <<<<PtrToInt(it.prev), it.curr>>>>
            \o RegWalk(r, IF fwd THEN stash_reg_next(r, it)
                          ELSE stash_reg_previous(r, it), fwd, fuel - 1)

Reverse(s) == [i \in 1..Len(s) |-> s[Len(s) + 1 - i]]

(* The live elements, in ascending order.                                  *)
ArrElements(a) == [i \in 1..a.count |-> DataPtr(a, (i - 1) * a.elem_size)]

UmapElements(t) ==
    IF ~stash_umap_is_valid(t) THEN <<>>
    ELSE [i \in 1..t.buckets.count |-> <<"val", i - 1>>]

OccupiedOnly(t, s) == SelectSeq(s, LAMBDA p : EntryAt(t, p[2]).occupied)

RegElements(r) ==
    SelectSeq([i \in 1..(r.next_id - 1) |-> <<i, RegAt(r, i - 1)>>],
              LAMBDA p : stash_reg_exists(r, p[1]))

(* C12: in every state of each container, the walk by next from begin      *)
(* until current is absent visits every live element exactly once, in      *)
(* ascending order (slots 0..count-1, occupied buckets, live ids), the     *)
(* walk by previous from end visits the same elements in the reverse       *)
(* order, and both walks end.                                              *)
C12_Coverage ==
    /\ (client.kind = "arr")
          => \A cmp \in BOOLEAN :
                LET all == ArrElements(array)
                IN  /\ ArrWalk(array, stash_arr_begin(array), TRUE, cmp, Len(all) + 2) = all
                    /\ ArrWalk(array, stash_arr_end(array), FALSE, cmp, Len(all) + 2)
                          = Reverse(all)
    /\ (client.kind = "map")
          => LET all == OccupiedOnly(table, UmapElements(table))
             IN  /\ UmapWalk(table, stash_umap_begin(table), TRUE, Len(all) + 2) = all
                 /\ UmapWalk(table, stash_umap_end(table), FALSE, Len(all) + 2) = Reverse(all)
    /\ (client.kind = "reg" /\ pc # "crashed")
          => LET all == RegElements(reg)
             IN  /\ RegWalk(reg, stash_reg_begin(reg), TRUE, Len(all) + 2) = all
                 /\ RegWalk(reg, stash_reg_end(reg), FALSE, Len(all) + 2) = Reverse(all)

(* --------------------------------- C18 -------------------------------- *)

(* The number of elements the client's container holds, and the cursors    *)
(* begin and end return for it.                                            *)
Holds ==
    CASE client.kind = "arr" -> Len(ArrElements(array))
      [] client.kind = "map" -> Len(OccupiedOnly(table, UmapElements(table)))
      [] client.kind = "reg" -> Len(RegElements(reg))

BeginOf ==
    CASE client.kind = "arr" -> stash_arr_begin(array)
      [] client.kind = "map" -> stash_umap_begin(table)
      [] client.kind = "reg" -> stash_reg_begin(reg)

EndOf ==
    CASE client.kind = "arr" -> stash_arr_end(array)
      [] client.kind = "map" -> stash_umap_end(table)
      [] client.kind = "reg" -> stash_reg_end(reg)

BeginEndCalls == {"arr_begin", "arr_end", "umap_begin", "umap_end", "reg_begin", "reg_end"}

(* The bucket index or the id of the only element of the container.        *)
OnlyPosition ==
    IF client.kind = "map" THEN OccupiedOnly(table, UmapElements(table))[1][2]
    ELSE RegElements(reg)[1][1]

(* C18 as claimed: for each of the three containers, begin and end of a    *)
(* container that holds no element return equal cursors whose current is   *)
(* absent, and begin and end of a container that holds exactly one element *)
(* return equal cursors whose previous and next are both absent.           *)
C18_BothAbsent ==
    (pc = "returned" /\ last.op \in BeginEndCalls)
        => /\ Holds = 0 => /\ client.it = BeginOf /\ client.it = EndOf
                           /\ client.it.curr = NULL
           /\ Holds = 1 => /\ client.it = BeginOf /\ client.it = EndOf
                           /\ client.it.prev = NULL
                           /\ client.it.next = NULL

(* C18 as amended: for each of the three containers, begin and end of a    *)
(* container that holds no element return equal cursors whose current is   *)
(* absent, and begin and end of a container that holds exactly one element *)
(* return equal cursors whose next is absent; previous is absent for the   *)
(* array, while for the table and the registry previous carries the bucket *)
(* index or the id of the element current refers to.                       *)
C18_Boundary ==
    (pc = "returned" /\ last.op \in BeginEndCalls)
        => /\ Holds = 0 => /\ client.it = BeginOf /\ client.it = EndOf
                           /\ client.it.curr = NULL
           /\ Holds = 1 => /\ client.it = BeginOf /\ client.it = EndOf
                           /\ client.it.next = NULL
                           /\ client.kind = "arr" => client.it.prev = NULL
                           /\ (client.kind # "arr" /\ client.it.curr # NULL)
                                 => client.it.prev = Abs(OnlyPosition)

(* C18 witness: end has returned the cursor of the only element of a       *)
(* table, stored in a bucket other than bucket 0.                          *)
C18_Witness ==
    /\ pc = "returned" /\ last.op = "umap_end" /\ Holds = 1
    /\ client.it.curr # NULL /\ client.it.prev # NULL

(* --------------------------------- C19 -------------------------------- *)

(* Cursor `it` refers to the last, or to the first, element.               *)
AtLast(it) == it.curr # NULL /\ it.curr = EndOf.curr /\ it.prev = EndOf.prev

AtFirst(it) == it.curr # NULL /\ it.curr = BeginOf.curr /\ it.prev = BeginOf.prev

(* The cursors after the last and before the first element.                *)
PostEnd(it) == it.curr = NULL /\ it.prev # NULL /\ it.prev = EndOf.curr

PreBegin(it) == it.curr = NULL /\ it.next # NULL /\ it.next = BeginOf.curr

NextCalls == {"umap_next", "reg_next"}

PreviousCalls == {"umap_previous", "reg_previous"}

(* C19: on a table or a registry that holds an element, next from the      *)
(* last element yields the post-end cursor (current absent, previous the   *)
(* last element) and previous from the first element the pre-begin cursor  *)
(* (current absent, next the first element); next on post-end and previous *)
(* on pre-begin change nothing; previous on post-end yields the cursor end *)
(* returns and next on pre-begin the cursor begin returns.                 *)
C19_Sentinels ==
    (pc = "returned" /\ client.kind # "arr" /\ Holds > 0)
        => /\ (last.op \in NextCalls /\ AtLast(last.pre)) => PostEnd(client.it)
           /\ (last.op \in PreviousCalls /\ AtFirst(last.pre)) => PreBegin(client.it)
           /\ (last.op \in NextCalls /\ PostEnd(last.pre)) => client.it = last.pre
           /\ (last.op \in PreviousCalls /\ PreBegin(last.pre)) => client.it = last.pre
           /\ (last.op \in PreviousCalls /\ PostEnd(last.pre)) => client.it = EndOf
           /\ (last.op \in NextCalls /\ PreBegin(last.pre)) => client.it = BeginOf

(* C19 witness: previous has brought the cursor of a registry with one     *)
(* live and one retired id back from post-end to the last element.         *)
C19_Witness ==
    /\ pc = "returned" /\ last.op = "reg_previous" /\ PostEnd(last.pre)
    /\ client.it.curr # NULL
    /\ Holds = 1 /\ reg.next_id = 3

(* ---------------------- the array and the allocator ------------------- *)

ArrReserve ==
    /\ pc = "ready"
    /\ \E n \in 0..MaxCap : \E nd \in ReserveNDs(array, n) :
        ArrStep("arr_reserve", n, NULL, <<>>, stash_arr_reserve(array, n, nd))

ArrResize ==
    /\ pc = "ready"
    /\ \E n \in 0..MaxCap : \E e \in Elems :
        \E nd \in ReserveNDs(array, IF n > array.count THEN n ELSE 0) :
            ArrStep("arr_resize", n, e, <<>>, stash_arr_resize(array, n, e, nd))

(* The allocator inputs of stash_arr_shrink_to_fit: none when it returns   *)
(* before STASH_REALLOC.                                                   *)
ShrinkNDs(a) ==
    IF a.count = a.capacity \/ a.count = 0 THEN {NoAlloc}
    ELSE NDs(a.count * a.elem_size, {<<>>})

ArrShrinkToFit ==
    /\ pc = "ready"
    /\ \E nd \in ShrinkNDs(array) :
        ArrStep("arr_shrink_to_fit", 0, NULL, <<>>, stash_arr_shrink_to_fit(array, nd))

(* The allocator inputs of stash_arr_copy: none when it returns before     *)
(* STASH_MALLOC.                                                           *)
CopyNDs(src) ==
    IF src.count * src.elem_size = 0 THEN {NoAlloc}
    ELSE NDs(src.count * src.elem_size, {<<>>})

(* copy := stash_arr_copy(&array), then stash_arr_compare(&copy, &array).  *)
ArrCopy ==
    /\ pc = "ready"
    /\ \E nd \in CopyNDs(array) :
        LET copy == stash_arr_copy(array, nd)
        IN  last' = [op |-> "arr_copy", pre |-> array, copy |-> copy, oom |-> ~nd.m,
                     equal |-> stash_arr_compare(copy, array)]
    /\ pc' = "returned"
    /\ UNCHANGED <<array, table, reg, client>>

ArrFill ==
    /\ pc = "ready"
    /\ \E v \in Vals :
        ArrStep("arr_fill", 0, Ptr(v), <<>>, Res(stash_arr_fill(array, Ptr(v)), STASH_SUCCESS))

(* stash_arr_destroy; freeing a block that was freed before stops the      *)
(* program or goes on.                                                     *)
ArrDestroy ==
    /\ pc = "ready"
    /\ \E crash \in (IF array.data = FREED THEN BOOLEAN ELSE {FALSE}) :
        /\ array' = IF crash THEN array ELSE stash_arr_destroy(array)
        /\ pc' = IF crash THEN "crashed" ELSE "returned"
    /\ last' = ArrLog("arr_destroy", 0, NULL, <<>>, Res(array, STASH_SUCCESS))
    /\ UNCHANGED <<table, reg, client>>

NextMem ==
    \/ ArrPushBack
    \/ ArrPushFront
    \/ ArrPushAt
    \/ ArrInsert
    \/ ArrPopBack
    \/ ArrPopFront
    \/ ArrPopAt
    \/ ArrClear
    \/ ArrFill
    \/ ArrDestroy
    \/ ArrReserve
    \/ ArrResize
    \/ ArrShrinkToFit
    \/ ArrCopy
    \/ Resume

SpecMem == InitArr /\ [][NextMem]_vars

(* --------------------------------- C13 -------------------------------- *)

(* C13: the copy of any array, also of an empty one with a positive        *)
(* element size, has count = capacity = the source's count and compares    *)
(* equal to the source.                                                    *)
C13_CopyCompares ==
    (pc = "returned" /\ last.op = "arr_copy" /\ ~last.oom)
        => /\ last.copy.count = last.pre.count
           /\ last.copy.capacity = last.pre.count
           /\ last.equal

(* --------------------------------- C16 -------------------------------- *)

GrowingCalls ==
    {"arr_reserve", "arr_resize", "arr_insert", "arr_push_back", "arr_push_front",
     "arr_push_at", "arr_shrink_to_fit"}

(* C16: when the allocator fails inside reserve, resize, insert,           *)
(* push_back, push_front, push_at or shrink_to_fit on a valid array, the   *)
(* call returns OutOfMemory and the array (data, count, capacity,          *)
(* elem_size, the cells of its block) is as before the call.               *)
C16_FailureKeeps ==
    (pc = "returned" /\ last.op \in GrowingCalls /\ last.oom
     /\ stash_arr_is_valid(last.pre))
        => last.ret = STASH_ERROR_OUT_OF_MEMORY /\ array = last.pre

(* C16 witness: shrink_to_fit of an array holding fewer elements than its  *)
(* capacity has seen the allocation fail.                                  *)
C16_Witness ==
    /\ pc = "returned" /\ last.op = "arr_shrink_to_fit" /\ last.oom
    /\ stash_arr_is_valid(last.pre) /\ last.pre.count > 0
    /\ last.ret = STASH_ERROR_OUT_OF_MEMORY

(* --------------------------------- C14 -------------------------------- *)

(* The occupied buckets of t, and whether key is stored in one of them.    *)
OccupiedBuckets(t) == {i \in Buckets(t) : EntryAt(t, i).occupied}

Stored(t, key) == \E i \in OccupiedBuckets(t) : EntryAt(t, i).key = key

Entries(t) == [i \in Buckets(t) |-> EntryAt(t, i)]

(* A call of insert with a value for a key that is not stored, on a table  *)
(* of n >= 1 buckets.                                                      *)
InsertOfNewKey ==
    /\ pc = "returned" /\ last.op = "umap_insert"
    /\ stash_umap_is_valid(last.pre) /\ last.pre.buckets.count >= 1
    /\ last.elem # NULL /\ ~Stored(last.pre, last.key)

(* C14: on a table of n >= 1 buckets, insert of a key that is not stored   *)
(* returns OK when fewer than n buckets are occupied and the value         *)
(* allocation succeeds, and returns OutOfMemory with count and every entry *)
(* unchanged when all n buckets are occupied.                              *)
C14_CapacityBound ==
    InsertOfNewKey
        => LET n == last.pre.buckets.count
               occupied == Cardinality(OccupiedBuckets(last.pre))
           IN  /\ (occupied < n /\ ~last.oom) => last.ret = STASH_SUCCESS
               /\ occupied = n
                     => /\ last.ret = STASH_ERROR_OUT_OF_MEMORY
                        /\ table.count = last.pre.count
                        /\ Entries(table) = Entries(last.pre)

(* C14 witness: an insert of a new key into a table whose two buckets are  *)
(* both occupied has returned.                                             *)
C14_Witness ==
    /\ InsertOfNewKey
    /\ last.pre.buckets.count = 2
    /\ Cardinality(OccupiedBuckets(last.pre)) = 2
    /\ last.ret = STASH_ERROR_OUT_OF_MEMORY

(* --------------------------------- C15 -------------------------------- *)

StoredKeys(t) == {EntryAt(t, i).key : i \in OccupiedBuckets(t)}

(* C15: when get(k) succeeds with value v, insert(k, v2) returns KeyExists *)
(* and leaves count, the set of stored keys and the value got for k        *)
(* unchanged.                                                              *)
C15_DuplicateInsert ==
    (pc = "returned" /\ last.op = "umap_insert" /\ last.elem # NULL
     /\ stash_umap_get(last.pre, last.key, Ptr(0)).ret = STASH_SUCCESS)
        => /\ last.ret = STASH_KEY_EXISTS
           /\ table.count = last.pre.count
           /\ StoredKeys(table) = StoredKeys(last.pre)
           /\ stash_umap_get(table, last.key, Ptr(0)).ret = STASH_SUCCESS
           /\ stash_umap_get(table, last.key, Ptr(0)).out
                 = stash_umap_get(last.pre, last.key, Ptr(0)).out

(* C15 witness: an insert of another value for a key that get finds has    *)
(* returned.                                                               *)
C15_Witness ==
    /\ pc = "returned" /\ last.op = "umap_insert" /\ last.elem # NULL
    /\ stash_umap_get(last.pre, last.key, Ptr(0)).ret = STASH_SUCCESS
    /\ stash_umap_get(last.pre, last.key, Ptr(0)).out # last.elem
    /\ last.pre.count = 2

(* -------------------- the registry and the allocator ------------------ *)

(* The calls of RegPush and RegPop with an allocator that may fail.        *)
RegPushAlloc ==
    /\ pc = "ready"
    /\ reg.free_ids.count > 0 \/ reg.next_id <= MaxIds
    /\ \E element \in Elems : \E nd \in PushNDs(reg) :
        LET r == stash_reg_push(reg, element, nd)
        IN  \E crash \in Crashes(r) : RegStep("reg_push", 0, element, r, crash)

RegPopAlloc ==
    /\ pc = "ready"
    /\ \E id \in Ids : \E element \in {Ptr(0), NULL} : \E nd \in PopNDs(reg, id, element) :
        LET r == stash_reg_pop(reg, id, element, nd)
        IN  \E crash \in Crashes(r) : RegStep("reg_pop", id, element, r, crash)

NextRegAlloc ==
    \/ RegPushAlloc
    \/ RegPopAlloc
    \/ Resume

SpecRegAlloc == InitReg /\ [][NextRegAlloc]_vars

(* --------------------------------- C17 -------------------------------- *)

(* C17: when the allocator fails while push grows elements or valid_flags  *)
(* of a valid registry, or while pop grows its free_ids, push returns 0    *)
(* and pop returns false, and the registry is as before the call.          *)
C17_FailureKeeps ==
    (pc = "returned" /\ last.op \in {"reg_push", "reg_pop"} /\ last.oom
     /\ stash_reg_is_valid(last.pre))
        => last.ret = 0 /\ reg = last.pre

(* --------------------------------- C20 -------------------------------- *)

(* id is retired in r: it waits in free_ids.                               *)
Retired(r, id) == Occurrences(FreeIds(r), id) > 0

(* C20: pop(id) returns false and leaves the registry unchanged when id is *)
(* 0, is not below next_id or is retired; after a pop that returned true   *)
(* free_ids holds the id once, a second pop of the id returns false and    *)
(* changes nothing, and the element slots are as before the pop.           *)
C20_PopRejection ==
    (pc = "returned" /\ last.op = "reg_pop")
        => /\ (last.id = 0 \/ last.id >= last.pre.next_id \/ Retired(last.pre, last.id))
                 => last.ret = 0 /\ reg = last.pre
           /\ last.ret = 1
                 => /\ Occurrences(FreeIds(reg), last.id) = 1
                    /\ \A nd \in PopNDs(reg, last.id, NULL) :
                          LET again == stash_reg_pop(reg, last.id, NULL, nd)
                          IN  again.ret = 0 /\ again.reg = reg
                    /\ reg.elements = last.pre.elements
                    /\ reg.eslack = last.pre.eslack

(* --------------------------------- C21 -------------------------------- *)

PopCalls == {"arr_pop_back", "arr_pop_front", "arr_pop_at"}

(* C21: on an empty array each of pop_back, pop_front and pop_at, for any  *)
(* index, returns Empty and leaves count, capacity and data unchanged.     *)
C21_EmptyPop ==
    (pc = "returned" /\ last.op \in PopCalls /\ last.pre.count = 0)
        => /\ last.ret = STASH_EMPTY
           /\ array.count = last.pre.count
           /\ array.capacity = last.pre.capacity
           /\ array.data = last.pre.data
           /\ array.mem = last.pre.mem

(* --------------------------------- C22 -------------------------------- *)

(* The address stash_arr_at(&a, i) returns.                                *)
AtAddress(a, i) ==
    IF stash_arr_at(a, i) = NULL THEN NULL ELSE DataPtr(a, i * a.elem_size)

(* C22: push_at(i, e) with i >= count returns OutOfBounds and leaves the   *)
(* array unchanged; insert(i, es, n) with i > count returns OutOfBounds    *)
(* and leaves the array unchanged, and with i = count it is accepted and   *)
(* returns OK (the allocator not failing); pop_at(i) with i >= count on a  *)
(* non-empty array returns OutOfBounds and leaves the array unchanged;     *)
(* at(i) is absent exactly when i >= count.                                *)
C22_IndexBounds ==
    /\ (pc = "returned" /\ last.op = "arr_push_at" /\ last.index >= last.pre.count)
          => last.ret = STASH_ERROR_OUT_OF_BOUNDS /\ array = last.pre
    /\ (pc = "returned" /\ last.op = "arr_insert" /\ last.index > last.pre.count)
          => last.ret = STASH_ERROR_OUT_OF_BOUNDS /\ array = last.pre
    /\ (pc = "returned" /\ last.op = "arr_insert" /\ last.index = last.pre.count
        /\ ~last.oom)
          => last.ret = STASH_SUCCESS
    /\ (pc = "returned" /\ last.op = "arr_pop_at" /\ last.pre.count > 0
        /\ last.index >= last.pre.count)
          => last.ret = STASH_ERROR_OUT_OF_BOUNDS /\ array = last.pre
    /\ \A i \in 0..(MaxCap + 1) : (AtAddress(array, i) = NULL) <=> (i >= array.count)

(* C22 witness: push_at at index count of an array holding two elements    *)
(* has been rejected.                                                      *)
C22_Witness ==
    /\ pc = "returned" /\ last.op = "arr_push_at"
    /\ last.pre.count = 2 /\ last.index = 2
    /\ last.ret = STASH_ERROR_OUT_OF_BOUNDS

(* --------------------------------- C23 -------------------------------- *)

(* Slots [from, to) of a.                                                  *)
Slots(a, from, to) == [i \in (from + 1)..to |-> a.mem[i]]

(* C23: resize(n, fill) on a valid array: when n <= count it sets count to *)
(* n and leaves slots [0, n) and the capacity unchanged; otherwise (the    *)
(* allocator not failing) it returns OK with count = n, slots [0, old      *)
(* count) unchanged, every slot of [old count, n) equal to fill, or to     *)
(* zero when fill is absent, and capacity >= n.                            *)
C23_Resize ==
    (pc = "returned" /\ last.op = "arr_resize" /\ stash_arr_is_valid(last.pre))
        => LET n == last.index
               old == last.pre.count
           IN  /\ n <= old
                     => /\ array.count = n
                        /\ Slots(array, 0, n) = Slots(last.pre, 0, n)
                        /\ array.capacity = last.pre.capacity
               /\ (n > old /\ ~last.oom)
                     => /\ last.ret = STASH_SUCCESS
                        /\ array.count = n
                        /\ Slots(array, 0, old) = Slots(last.pre, 0, old)
                        /\ \A i \in (old + 1)..n : array.mem[i] = ElemOrZero(last.elem)
                        /\ array.capacity >= n

(* C23 witness: a resize without a fill element has grown an array that    *)
(* held an element beyond its capacity.                                    *)
C23_Witness ==
    /\ pc = "returned" /\ last.op = "arr_resize" /\ stash_arr_is_valid(last.pre)
    /\ last.pre.count = 1 /\ last.index > last.pre.capacity /\ last.elem = NULL
    /\ last.ret = STASH_SUCCESS /\ array.count = last.index

(* --------------------------------- C24 -------------------------------- *)

(* count <= capacity, and data points to an allocated block exactly when   *)
(* capacity > 0.                                                           *)
SizeInvariant(a) == a.count <= a.capacity /\ ((a.data = HEAP) <=> (a.capacity > 0))

(* C24: after any sequence of create, push_back, push_front, push_at,      *)
(* insert, pop_back, pop_front, pop_at, resize, reserve, shrink_to_fit,    *)
(* fill, clear, copy and destroy, count <= capacity holds and data is      *)
(* allocated if and only if capacity > 0, of the array and of its copy.    *)
C24_SizeInvariant ==
    pc # "crashed"
        => /\ SizeInvariant(array)
           /\ last.op = "arr_copy" => SizeInvariant(last.copy)

(* --------------------------------- C25 -------------------------------- *)

(* C25: after any sequence of insert, remove and clear, failed calls       *)
(* included, count equals the number of occupied bucket entries, and an    *)
(* entry has a value buffer if and only if it is occupied.                 *)
C25_Occupancy ==
    /\ table.count = Cardinality(OccupiedBuckets(table))
    /\ \A i \in Buckets(table) :
          (EntryAt(table, i).value # NULL) <=> EntryAt(table, i).occupied

(* C25 witness: a remove has taken one of two stored keys out.             *)
C25_Witness ==
    /\ pc = "returned" /\ last.op = "umap_remove" /\ last.ret = STASH_SUCCESS
    /\ last.pre.count = 2 /\ table.count = 1

(* --------------------------------- C26 -------------------------------- *)

Po2s == {2 ^ k : k \in 0..8}

(* The smallest power of two that is >= x, and the smallest that is > x.   *)
Po2AtLeast(x) == CHOOSE p \in Po2s : p >= x /\ \A q \in Po2s : q >= x => p <= q

Po2Above(x) == CHOOSE p \in Po2s : p > x /\ \A q \in Po2s : q > x => p <= q

PushCalls == {"arr_push_back", "arr_push_front", "arr_push_at"}

(* A push that found count = capacity and has stored its element.          *)
GrowingPush ==
    /\ pc = "returned" /\ last.op \in PushCalls
    /\ last.pre.count = last.pre.capacity /\ last.ret = STASH_SUCCESS

(* The capacity is unchanged by a push that fits, and by pop, clear and a  *)
(* resize to a smaller size.                                               *)
CapacityKept ==
    /\ (pc = "returned" /\ last.op \in PushCalls /\ last.pre.count < last.pre.capacity)
          => array.capacity = last.pre.capacity
    /\ (pc = "returned" /\ last.op \in PopCalls \cup {"arr_clear"})
          => array.capacity >= last.pre.capacity
    /\ (pc = "returned" /\ last.op = "arr_resize" /\ last.index <= last.pre.count)
          => array.capacity >= last.pre.capacity

(* C26 as claimed, for valid arrays: a push called with count = capacity   *)
(* makes the capacity the smallest power of two that is >= count + 1; the  *)
(* capacity never changes on a push that fits and never decreases on pop,  *)
(* clear or a resize to a smaller size.                                    *)
C26_RoundUp ==
    /\ (GrowingPush /\ stash_arr_is_valid(last.pre))
          => array.capacity = Po2AtLeast(last.pre.count + 1)
    /\ CapacityKept

(* C26 as amended: a push called with count = capacity makes the capacity  *)
(* the smallest power of two that is greater than count + 1; the capacity  *)
(* never changes on a push that fits and never decreases on pop, clear or  *)
(* a resize to a smaller size.                                             *)
C26_Growth ==
    /\ GrowingPush => array.capacity = Po2Above(last.pre.count + 1)
    /\ CapacityKept

(* C26 witness: push_back on a full array of one element has grown it to   *)
(* four slots.                                                             *)
C26_Witness ==
    /\ GrowingPush /\ last.op = "arr_push_back"
    /\ last.pre.count = 1 /\ stash_arr_is_valid(last.pre)
    /\ array.capacity = 4

(* ----------------------- the table and its capacity ------------------- *)

MaxReserve == 3     \* capacities passed to stash_umap_reserve: 0..MaxReserve

(* The allocator inputs of stash_umap_reserve.                             *)
TableReserveNDs(t, newCapacity) ==
    IF stash_umap_is_valid(t) /\ newCapacity >= t.count /\ newCapacity > t.buckets.capacity
    THEN NDs(newCapacity * t.buckets.elem_size,
             EntryGarbage(newCapacity - Len(t.buckets.mem)))
    ELSE {NoAlloc}

UmapReserve ==
    /\ pc = "ready"
    /\ \E n \in 0..MaxReserve : \E nd \in TableReserveNDs(table, n) :
        MapStep("umap_reserve", n, NULL, stash_umap_reserve(table, n, nd))

NextCap ==
    \/ UmapInsert
    \/ UmapRemove
    \/ UmapGet
    \/ UmapContains
    \/ UmapClear
    \/ UmapReserve
    \/ Resume

SpecCap == InitMap /\ [][NextCap]_vars

(* --------------------------------- C27 -------------------------------- *)

TableChanges == {"umap_insert", "umap_remove", "umap_clear", "umap_reserve"}

(* C27: insert, remove, clear and reserve never change buckets.count; the  *)
(* growth before an insert and reserve change only buckets.capacity; no    *)
(* occupied entry is moved to another bucket: an entry that stays occupied *)
(* keeps its key and value in its bucket, and a bucket becomes occupied    *)
(* only by an insert of its key; count <= buckets.count in every state.    *)
C27_BucketsFrozen ==
    /\ table.count <= table.buckets.count
    /\ (pc = "returned" /\ last.op \in TableChanges)
          => /\ table.buckets.count = last.pre.buckets.count
             /\ table.buckets.elem_size = last.pre.buckets.elem_size
             /\ table.buckets.capacity >= last.pre.buckets.capacity
             /\ last.op = "umap_reserve"
                   => table.count = last.pre.count /\ Entries(table) = Entries(last.pre)
             /\ \A i \in Buckets(table) :
                   /\ (EntryAt(table, i).occupied /\ EntryAt(last.pre, i).occupied)
                         => EntryAt(table, i) = EntryAt(last.pre, i)
                   /\ (EntryAt(table, i).occupied /\ ~EntryAt(last.pre, i).occupied)
                         => last.op = "umap_insert" /\ EntryAt(table, i).key = last.key

(* C27 witness: a reserve has grown the bucket block of a table that holds *)
(* a key.                                                                  *)
C27_Witness ==
    /\ pc = "returned" /\ last.op = "umap_reserve" /\ last.ret = STASH_SUCCESS
    /\ table.count = 1
    /\ table.buckets.capacity > last.pre.buckets.capacity

(* --------------------------------- C28 -------------------------------- *)

SizeKeepingCalls ==
    {"arr_reserve", "arr_resize", "arr_push_back", "arr_push_front", "arr_push_at",
     "arr_insert", "arr_fill", "arr_shrink_to_fit", "arr_clear"}

(* The arrays stash_arr_create returns for a capacity or element size 0.   *)
CreatedEmpty ==
    {stash_arr_create(c, es, nd) :
        <<c, es, nd>> \in {<<c, es, nd>> \in (0..MaxInitCap) \X {0, ElemSize}
                                              \X NDs(0, {<<>>}) : c = 0 \/ es = 0}}

(* C28: stash_arr_create with capacity 0 or element size 0 returns the     *)
(* all-zero record, which is not valid; reserve, resize, the pushes,       *)
(* insert, fill, shrink_to_fit and clear leave elem_size as it was, so an  *)
(* array with elem_size 0 is still not valid after any of them.            *)
C28_StaysInvalid ==
    /\ \A a \in CreatedEmpty : a = ZeroArr /\ ~stash_arr_is_valid(a)
    /\ (pc = "returned" /\ last.op \in SizeKeepingCalls)
          => /\ array.elem_size = last.pre.elem_size
             /\ last.pre.elem_size = 0 => ~stash_arr_is_valid(array)

(* C28 witness: a push on an array of element size 0 has left it with a    *)
(* block and a positive capacity.                                          *)
C28_Witness ==
    /\ pc = "returned" /\ last.op \in {"arr_push_back", "arr_push_front", "arr_push_at"}
    /\ last.pre.elem_size = 0
    /\ array.data = HEAP /\ array.capacity > 0 /\ array.count > 0

(* --------------------------------- C29 -------------------------------- *)

(* The table of stash_umap_create(0, value_size).                          *)
InitZero ==
    /\ pc = "ready"
    /\ \E nd \in NDs(DefaultCapacity * EntrySize, EntryGarbage(DefaultCapacity)) :
            table = stash_umap_create(0, ValueSize, nd)
    /\ array = 0
    /\ reg = 0
    /\ client = 0
    /\ last = NoLog

(* stash_umap_reserve asking for more than the capacity of the buckets.    *)
UmapReserveAbove ==
    /\ pc = "ready"
    /\ \E n \in 1..MaxReserve : \E nd \in TableReserveNDs(table, table.buckets.capacity + n) :
        /\ table.buckets.capacity + n <= DefaultCapacity + MaxReserve
        /\ MapStep("umap_reserve", table.buckets.capacity + n, NULL,
                   stash_umap_reserve(table, table.buckets.capacity + n, nd))

NextZero ==
    \/ UmapInsert
    \/ UmapRemove
    \/ UmapGet
    \/ UmapContains
    \/ UmapClear
    \/ UmapReserve
    \/ UmapReserveAbove
    \/ Resume

SpecZero == InitZero /\ [][NextZero]_vars

(* Every call on the table fails or misses, and the table holds nothing,   *)
(* whatever capacity a reserve has given it.                               *)
Unusable ==
    /\ table.buckets.count = 0
    /\ table.count = 0
    /\ pc = "returned"
          => /\ last.op = "umap_insert" => last.ret = STASH_ERROR_OUT_OF_MEMORY
             /\ last.op \in {"umap_get", "umap_remove"}
                   => last.ret = STASH_ERROR_KEY_NOT_FOUND /\ last.out = NULL
             /\ last.op = "umap_contains" => last.ret = 0
             /\ last.op \in {"umap_insert", "umap_get", "umap_remove", "umap_contains",
                             "umap_clear"} => table = last.pre
             /\ last.op = "umap_reserve"
                   => table.buckets.capacity >= last.pre.buckets.capacity

(* C29 as stated: a table created with initial capacity 0 is valid, has    *)
(* buckets.count = 0, every insert on it returns OutOfMemory, its count    *)
(* stays 0, and contains, get and remove miss for every key.               *)
C29_ZeroCapacity == stash_umap_is_valid(table) /\ Unusable

(* C29: a table created with initial capacity 0 is valid, with a block of  *)
(* 16 buckets, when the allocation of that block succeeded, and has the    *)
(* all-zero bucket array when it failed; in both cases buckets.count = 0,  *)
(* every insert returns OutOfMemory, count stays 0, and contains, get and  *)
(* remove miss for every key.                                              *)
C29_Unusable ==
    /\ IF stash_umap_is_valid(table)
       THEN table.buckets.capacity >= DefaultCapacity
       ELSE table.buckets = ZeroArr
    /\ Unusable

(* C29 witness: an insert of a value into the valid table, whose block a   *)
(* reserve has grown beyond 16 buckets, returned OutOfMemory.              *)
C29_Witness ==
    /\ pc = "returned" /\ last.op = "umap_insert" /\ last.elem # NULL
    /\ stash_umap_is_valid(last.pre) /\ last.pre.buckets.capacity > DefaultCapacity
    /\ last.ret = STASH_ERROR_OUT_OF_MEMORY

====
